---- MODULE Spec2Model ----
(***************************************************************************)
(* Namespace-deployment scripts of TechSavvyRC/scripts (src/python):       *)
(* deploy_ecom_app.py, deploy_mysql.py, deploy_kafka.py and the pod        *)
(* waiter of deploy_kubernetes_dashboard.py.  One process runs one script: *)
(* `script` selects which one.  The cluster (namespace phase, pods,        *)
(* services) is the environment the scripts act on through kubectl.       *)
(***************************************************************************)
EXTENDS Integers, Sequences, FiniteSets, TLC

VARIABLES
    script,      \* which script this process runs
    pc,          \* position of the process in the script
    userOk,      \* whether the process runs as 'muser'
    clusterUp,   \* whether 'minikube status' reports Running
    filesOk,     \* whether every required file is in the working directory
    nsPhase,     \* the target namespace: absent | active | terminating
    pods,        \* pod id -> none | pending | starting | ready
    svc,         \* whether the owned service exists in the namespace
    runs,        \* deploy and uninstall runs started from the menu so far
    log,         \* cluster-changing commands issued in the current run
    listing,     \* stdout of the run's last resource listing
    listFailed,  \* whether the run's resource listing exited non-zero
    snapRows,    \* rows of the resources that were in the namespace when listed
    cls,         \* classification the script derived: none | Empty | AllOwned | Mixed
    answer,      \* the operator's answer at the conflict prompt, "" once the script
                 \* has acted on it (the local is not read again)
    prompts,     \* conflict prompts shown in the current run
    decision,    \* none | Continue | Recreate
    delPolls,    \* iterations of the wait for namespace deletion
    sawAbsent,   \* whether the run observed the deleted namespace absent
    stage,       \* which workload (1 or 2) the run is applying / waiting on
    wTimeout,    \* the waiter's timeout parameter
    wInterval,   \* the waiter's interval parameter
    elapsed,     \* the waiter's elapsed counter (mysql: attempts)
    polls,       \* polls the current wait has made
    podOut,      \* stdout of the waiter's last pod listing
    snapPods,    \* the pods (ready, total, phase) behind the last pod listing
    earlierReady,\* whether a poll before the last one already showed all pods ready
    wOutcome,    \* none | Ready | TimedOut
    nsAtApply,   \* none | empty | nonempty: the namespace when the run's first apply was issued
    report,      \* what the current run reported: none | already | success (deploy),
                 \* removed | noop | error (uninstall)
    trail,       \* the precondition checks the process has made, in order
    fetch,       \* none | clone_failed | file_missing: how the run's artifact fetch failed
    failed,      \* the manifest the run's apply failure message names, "" if none
    nsCreate,    \* none | exists | error: how the run's 'kubectl create namespace' failed
    ingressYaml, \* whether kubernetes-dashboard-ingress.yaml is in the dashboard's directory
    secretYaml,  \* whether kubernetes-dashboard-secret.yaml is in the dashboard's directory
    secretAsked, \* whether kd-secrete-generate.py has put its question in the current run
    topicMade,   \* whether the current run of deploy_kafka.py has created the topic
    installed,   \* whether the tool the script manages (minikube, velero) is on the PATH
    newer,       \* whether a newer minikube than the installed one is available
    kubectl,     \* absent | old | latest: kubectl on the PATH and its version
    deployed,    \* whether the deployment 'velero' exists in the namespace 'velero'
    cmdExec,     \* the script whose command executor ran the command below
    cmdFlag,     \* the executor's caller flag (check; 'wait' for execute_command)
    cmdCapture,  \* the executor's capture_output argument
    cmdRc,       \* the command's exit status
    cmdOut,      \* the command's stdout
    cmdRet,      \* how the executor ended: [kind |-> none | returned | exited, value |-> ...]
    exitCode     \* -1 while the process runs, else its exit status

vars == <<script, pc, userOk, clusterUp, filesOk, nsPhase, pods, svc, runs, log,
          listing, listFailed, snapRows, cls, answer, prompts, decision, delPolls,
          sawAbsent, stage, wTimeout, wInterval, elapsed, polls, podOut, snapPods,
          earlierReady, wOutcome, nsAtApply, report, trail, fetch, failed, nsCreate,
          ingressYaml, secretYaml, secretAsked, topicMade, installed, newer, kubectl, deployed, cmdExec, cmdFlag, cmdCapture, cmdRc, cmdOut, cmdRet, exitCode>>

\* the state of the tool, of the velero deployment and of the command executor
toolVars == <<installed, deployed, newer, kubectl>>
execVars == <<cmdExec, cmdFlag, cmdCapture, cmdRc, cmdOut, cmdRet>>

\* no command has gone through the executor
NoCommand ==
    /\ cmdExec = ""
    /\ cmdFlag = TRUE
    /\ cmdCapture = TRUE
    /\ cmdRc = 0
    /\ cmdOut = ""
    /\ cmdRet = [kind |-> "none", value |-> ""]

\* an operation that ends with no executor call on record
ClearCommand ==
    /\ cmdExec' = ""
    /\ cmdFlag' = TRUE
    /\ cmdCapture' = TRUE
    /\ cmdRc' = 0
    /\ cmdOut' = ""
    /\ cmdRet' = [kind |-> "none", value |-> ""]

\* the deploy scripts neither install a tool nor look at the velero deployment
ToolIdle == installed = TRUE /\ deployed = FALSE /\ newer = FALSE /\ kubectl = "latest"

\* the scripts other than the dashboard's have no ingress manifest and do not
\* call the secret script
NoIngress == ingressYaml = FALSE /\ secretYaml = FALSE /\ secretAsked = FALSE /\ topicMade = FALSE

(***************************************************************************)
(* Bounds of the model.                                                    *)
(***************************************************************************)
MaxRuns == 2
MaxPrompts == 4

(***************************************************************************)
(* Python string operations used by the scripts.                          *)
(***************************************************************************)
IsSpace(c) == c \in {" ", "\n", "\t"}

CharAt(s, i) == SubSeq(s, i, i)

MinOf(S) == CHOOSE x \in S : \A y \in S : x <= y
MaxOf(S) == CHOOSE x \in S : \A y \in S : y <= x

\* str.strip(): from the first to the last non-whitespace character
Strip(s) ==
    LET keep == {i \in 1..Len(s) : ~IsSpace(CharAt(s, i))}
    IN  IF keep = {} THEN "" ELSE SubSeq(s, MinOf(keep), MaxOf(keep))

UpperCase == <<"A","B","C","D","E","F","G","H","I","J","K","L","M",
               "N","O","P","Q","R","S","T","U","V","W","X","Y","Z">>
LowerCase == <<"a","b","c","d","e","f","g","h","i","j","k","l","m",
               "n","o","p","q","r","s","t","u","v","w","x","y","z">>

LowerChar(c) ==
    IF \E i \in 1..26 : UpperCase[i] = c
    THEN LowerCase[CHOOSE i \in 1..26 : UpperCase[i] = c]
    ELSE c

\* str.lower(), character by character (computed by halves)
RECURSIVE Lower(_)
Lower(s) ==
    IF Len(s) = 0 THEN ""
    ELSE IF Len(s) = 1 THEN LowerChar(s)
    ELSE Lower(SubSeq(s, 1, Len(s) \div 2)) \o Lower(SubSeq(s, (Len(s) \div 2) + 1, Len(s)))

\* needle in s
Contains(s, needle) ==
    \E i \in 1..(Len(s) - Len(needle) + 1) : SubSeq(s, i, i + Len(needle) - 1) = needle

\* s.startswith(prefix)
StartsWith(s, prefix) ==
    Len(s) >= Len(prefix) /\ SubSeq(s, 1, Len(prefix)) = prefix

\* s.split(sep) for a one-character separator: the pieces between separators,
\* empty ones included (one piece more than there are separators)
SplitOn(s, sep) ==
    LET ends == {i \in 1..Len(s) : CharAt(s, i) = sep} \cup {Len(s) + 1}
        EndOf(k) == CHOOSE e \in ends : Cardinality({j \in ends : j <= e}) = k
        StartOf(e) == MaxOf({0} \cup {j \in ends : j < e}) + 1
    IN  [k \in 1..Cardinality(ends) |-> SubSeq(s, StartOf(EndOf(k)), EndOf(k) - 1)]

\* s.splitlines(): like split on the line feed, without a last empty piece,
\* and no line at all for the empty string
SplitLines(s) ==
    LET p == SplitOn(s, "\n")
    IN  IF p[Len(p)] = "" THEN SubSeq(p, 1, Len(p) - 1) ELSE p

\* s.split(): the maximal runs of non-whitespace characters
Split(s) ==
    LET starts == {i \in 1..Len(s) :
                      ~IsSpace(CharAt(s, i)) /\ (i = 1 \/ IsSpace(CharAt(s, i - 1)))}
        StartOf(k) == CHOOSE b \in starts : Cardinality({j \in starts : j <= b}) = k
        EndOf(b) == MinOf({j \in b..Len(s) : j = Len(s) \/ IsSpace(CharAt(s, j + 1))})
    IN  [k \in 1..Cardinality(starts) |-> SubSeq(s, StartOf(k), EndOf(StartOf(k)))]

Digits == <<"0","1","2","3","4","5","6","7","8","9">>
IsDigit(c) == \E i \in 1..10 : Digits[i] = c
DigitVal(c) == (CHOOSE i \in 1..10 : Digits[i] = c) - 1

\* whether int(s) succeeds (unsigned decimal numerals; anything else raises ValueError)
IsInt(s) == Len(s) > 0 /\ \A i \in 1..Len(s) : IsDigit(SubSeq(s, i, i))

\* int(s)
RECURSIVE ToInt(_)
ToInt(s) ==
    IF Len(s) = 0 THEN 0
    ELSE 10 * ToInt(SubSeq(s, 1, Len(s) - 1)) + DigitVal(SubSeq(s, Len(s), Len(s)))

RECURSIVE JoinLines(_)
JoinLines(ls) == IF Len(ls) = 0 THEN "" ELSE ls[1] \o "\n" \o JoinLines(Tail(ls))

(***************************************************************************)
(* The cluster as kubectl shows it.  A pod record is                       *)
(* [name, ready, total, phase]; column lists are cut to the columns the    *)
(* scripts read.                                                          *)
(***************************************************************************)
Scripts == {"ecom", "mysql", "kafka"}
PodIds == <<"own1", "own2", "foreign">>

PodName(s, id) ==
    IF id = "foreign" THEN "foo-bar"
    ELSE IF s = "ecom" THEN (IF id = "own1" THEN "ecommerce-application-0"
                                            ELSE "ecommerce-application-1")
    ELSE IF s = "mysql" THEN (IF id = "own1" THEN "mysql-0" ELSE "phpmyadmin-0")
    ELSE IF s = "dashboard" THEN (IF id = "own1" THEN "kubernetes-dashboard-web-0"
                                                 ELSE "kubernetes-dashboard-kong-0")
    ELSE (IF id = "own1" THEN "kafka-0" ELSE "redpanda-0")

\* the value of the pod's app label
PodLabel(s, id) ==
    IF id = "foreign" THEN "foo"
    ELSE IF s = "ecom" THEN "ecommerce-application"
    ELSE IF s = "mysql" THEN (IF id = "own1" THEN "mysql" ELSE "phpmyadmin")
    ELSE (IF id = "own1" THEN "kafka" ELSE "redpanda")

SvcName(s) ==
    IF s = "ecom" THEN "ecommerce-application"
    ELSE IF s = "mysql" THEN "mysql-svc-internal"
    ELSE IF s = "dashboard" THEN "kubernetes-dashboard-kong-proxy"
    ELSE "kafka"

PodRecord(s, id, st) ==
    [name |-> PodName(s, id),
     ready |-> IF st = "ready" THEN 1 ELSE 0,
     total |-> 1,
     phase |-> IF st = "pending" THEN "Pending" ELSE "Running"]

\* the pod records of the ids in `ids` that exist, in listing order
RECURSIVE PodRecords(_, _, _)
PodRecords(s, ps, ids) ==
    IF Len(ids) = 0 THEN <<>>
    ELSE (IF ps[ids[1]] = "none" THEN <<>> ELSE <<PodRecord(s, ids[1], ps[ids[1]])>>)
         \o PodRecords(s, ps, Tail(ids))

NumStr(n) == IF n < 10 THEN Digits[n + 1] ELSE Digits[(n \div 10) + 1] \o Digits[(n % 10) + 1]

ReadyCol(p) == NumStr(p.ready) \o "/" \o NumStr(p.total)

\* a pod's row in 'kubectl get all'
PodRowAll(p) == "pod/" \o p.name \o "   " \o ReadyCol(p) \o "   " \o p.phase

\* a pod's row in 'kubectl get pods --no-headers'
PodRow(p) == p.name \o "   " \o ReadyCol(p) \o "   " \o p.phase \o "   0   5m"

SvcRow(s) == "service/" \o SvcName(s) \o "   ClusterIP   10.96.0.10"

RECURSIVE MapRows(_, _)
MapRows(recs, all) ==
    IF Len(recs) = 0 THEN <<>>
    ELSE <<IF all THEN PodRowAll(recs[1]) ELSE PodRow(recs[1])>> \o MapRows(Tail(recs), all)

\* the resource rows of a namespace, headers and blank lines left out
ResourceRows(s, recs, hasSvc) ==
    MapRows(recs, TRUE) \o (IF hasSvc THEN <<SvcRow(s)>> ELSE <<>>)

\* stdout of 'kubectl get all -n <namespace>': one section per resource kind,
\* each with its NAME header row, sections separated by a blank line; nothing
\* on stdout when the namespace holds no resource
GetAllOutput(s, recs, hasSvc) ==
    LET podSec == IF Len(recs) = 0 THEN <<>>
                  ELSE <<"NAME   READY   STATUS">> \o MapRows(recs, TRUE)
        svcSec == IF hasSvc THEN <<"NAME   TYPE   CLUSTER-IP", SvcRow(s)>> ELSE <<>>
        gap == IF Len(podSec) > 0 /\ Len(svcSec) > 0 THEN <<"">> ELSE <<>>
    IN  JoinLines(podSec \o gap \o svcSec)

\* stdout of 'kubectl get pods -n <namespace> --no-headers'
GetPodsOutput(recs) == JoinLines(MapRows(recs, FALSE))

RECURSIVE PhaseLines(_)
PhaseLines(recs) ==
    IF Len(recs) = 0 THEN <<>> ELSE <<recs[1].phase>> \o PhaseLines(Tail(recs))

\* stdout of 'kubectl get pods -l app=<label> -o custom-columns=:status.phase':
\* an empty header line, then one phase per pod
GetPhasesOutput(recs) ==
    IF Len(recs) = 0 THEN "" ELSE JoinLines(<<"">> \o PhaseLines(recs))

(***************************************************************************)
(* Namespace Inspector: the ownership predicates and the classification    *)
(* each script derives from the listing.                                  *)
(***************************************************************************)
\* deploy_ecom_app.py: the first column contains 'ecommerce-application'
OwnedEcom(line) == Contains(Split(line)[1], "ecommerce-application")

\* deploy_mysql.py: the lower-cased line contains 'mysql' or 'phpmyadmin'
OwnedMysql(line) ==
    \E x \in {"mysql", "phpmyadmin"} : Contains(Lower(line), x)

\* deploy_kafka.py: the line contains 'kafka' or 'redpanda'
OwnedKafka(line) ==
    \E app \in {"kafka", "redpanda"} : Contains(line, app)

Owned(s, line) ==
    IF s = "ecom" THEN OwnedEcom(line)
    ELSE IF s = "mysql" THEN OwnedMysql(line)
    ELSE OwnedKafka(line)

\* get_resources: the stripped stdout, or "" when the command failed
get_resources(ok, stdout) == IF ok THEN Strip(stdout) ELSE ""

\* resources_belong_to_app returning True as soon as one resource name
\* contains 'ecommerce-application', instead of requiring it of every name
resources_belong_to_app_any(resources_output) ==
    LET lines == SplitLines(resources_output)
    IN  \E i \in 1..Len(lines) :
            /\ ~StartsWith(lines[i], "NAME")
            /\ Strip(lines[i]) # ""
            /\ OwnedEcom(lines[i])

\* resources_belong_to_app: False at the first line, other than a header or a
\* blank line, whose first column lacks 'ecommerce-application'
resources_belong_to_app(resources_output) ==
    LET lines == SplitLines(resources_output)
    IN  \A i \in 1..Len(lines) :
            \/ StartsWith(lines[i], "NAME")
            \/ Strip(lines[i]) = ""
            \/ OwnedEcom(lines[i])

\* manage_existing_resources without the 'if resources_output:' test
ClassifyEcom_unguarded(resources_output) ==
    IF resources_belong_to_app(resources_output) THEN "AllOwned" ELSE "Mixed"

\* manage_existing_resources: which branch the listing selects
ClassifyEcom(resources_output) ==
    IF resources_output = "" THEN "Empty"
    ELSE IF resources_belong_to_app(resources_output) THEN "AllOwned"
    ELSE "Mixed"

\* get_namespace_resources: stdout as it is, or "" when the command failed
get_namespace_resources(ok, stdout) == IF ok THEN stdout ELSE ""

check_existing_resources(resources) ==
    LET lines == SplitOn(resources, "\n")
        unexpected == \E i \in 1..Len(lines) :
                         /\ ~OwnedMysql(lines[i])
                         /\ lines[i] # ""
                         /\ ~StartsWith(lines[i], "NAME")
    IN  IF resources = "" THEN "Empty"
        ELSE IF unexpected THEN "Mixed"
        ELSE IF Contains(Lower(resources), "mysql") \/ Contains(Lower(resources), "phpmyadmin")
             THEN "AllOwned"
        ELSE "Empty"

\* deploy_kafka_and_redpanda, step 5: the first line is taken to be the one
\* header, every later line a resource
ClassifyKafka(stdout) ==
    LET resource_lines == SplitLines(Strip(stdout))
        data_lines == Tail(resource_lines)
        extraneous == \E i \in 1..Len(data_lines) : ~OwnedKafka(data_lines[i])
    IN  IF Len(resource_lines) <= 1 THEN "Empty"
        ELSE IF extraneous THEN "Mixed"
        ELSE "AllOwned"

\* the classification the running script derives from a listing that succeeded
\* (ok) or failed
Classify(s, ok, stdout) ==
    IF s = "ecom" THEN ClassifyEcom(get_resources(ok, stdout))
    ELSE IF s = "mysql" THEN check_existing_resources(get_namespace_resources(ok, stdout))
    ELSE ClassifyKafka(stdout)

(***************************************************************************)
(* The outcomes spec.md asks for, to compare the scripts against.          *)
(***************************************************************************)
\* spec.md 4.3: Empty for no entry, AllOwned when every entry satisfies the
\* ownership predicate, Mixed otherwise
ExpectedClass(s, rows) ==
    IF Len(rows) = 0 THEN "Empty"
    ELSE IF \A i \in 1..Len(rows) : Owned(s, rows[i]) THEN "AllOwned"
    ELSE "Mixed"

\* spec.md 6: ready iff x == y (and y >= 1), for every pod, at least one pod listed
AllReady(recs) ==
    /\ Len(recs) >= 1
    /\ \A i \in 1..Len(recs) : recs[i].ready = recs[i].total /\ recs[i].total >= 1

(***************************************************************************)
(* Readiness Waiter: what one poll of each script's wait loop concludes    *)
(* from the stdout of its pod listing.                                    *)
(***************************************************************************)
\* deploy_kafka.py wait_for_pods: whether the READY column "x/y" parses to two
\* integers (ValueError otherwise)
ReadyParses(ready) ==
    LET p == SplitOn(ready, "/")
    IN  Len(p) = 2 /\ IsInt(p[1]) /\ IsInt(p[2])

\* deploy_kafka.py wait_for_pods, one iteration: output is the stripped stdout
KafkaPollReady(output) ==
    LET lines == SplitLines(output)
    IN  /\ output # ""
        /\ \A i \in 1..Len(lines) :
              LET parts == Split(lines[i])
              IN  \/ Len(parts) < 2
                  \/ /\ ReadyParses(parts[2])
                     /\ ToInt(SplitOn(parts[2], "/")[1]) = ToInt(SplitOn(parts[2], "/")[2])

\* wait_for_pods returning as soon as the listing shows any pod
DashboardPollReady_anyOutput(output) == output # ""

\* deploy_kubernetes_dashboard.py wait_for_pods, one iteration
DashboardPollReady(output) ==
    LET lines == SplitLines(output)
    IN  /\ output # ""
        /\ \A i \in 1..Len(lines) :
              LET parts == Split(lines[i])
              IN  Len(parts) < 2 \/ parts[2] = "1/1"

\* deploy_mysql.py wait_for_pods_ready, one iteration: stdout of the phase listing
MysqlPollReady(ok, stdout) == ok /\ Contains(stdout, "Running")

\* the pods the script's wait lists: the pods carrying the stage's app label
\* (mysql), every pod of the namespace (kafka)
RECURSIVE LabelledIds(_, _, _)
LabelledIds(s, ids, label) ==
    IF Len(ids) = 0 THEN <<>>
    ELSE (IF PodLabel(s, ids[1]) = label THEN <<ids[1]>> ELSE <<>>)
         \o LabelledIds(s, Tail(ids), label)

StageLabel(s, st) == PodLabel(s, IF st = 1 THEN "own1" ELSE "own2")

WaitedRecords(s, ps, st) ==
    IF s = "mysql" THEN PodRecords(s, ps, LabelledIds(s, PodIds, StageLabel(s, st)))
    ELSE PodRecords(s, ps, PodIds)

\* stdout of the waiter's pod listing, as the script holds it
WaitOutput(s, recs) ==
    IF s = "mysql" THEN GetPhasesOutput(recs) ELSE Strip(GetPodsOutput(recs))

\* whether the poll ends the wait with Ready
PollReady(s, ok, output) ==
    IF s = "mysql" THEN MysqlPollReady(ok, output)
    ELSE IF s = "dashboard" THEN DashboardPollReady(IF ok THEN output ELSE "")
    ELSE KafkaPollReady(IF ok THEN output ELSE "")

(***************************************************************************)
(* Program constants.                                                     *)
(***************************************************************************)
DeleteWaitAttempts == 30
KafkaTimeout == 300
KafkaInterval == 10
MysqlMaxAttempts == 30

Manifest(s, st) ==
    IF s = "ecom" THEN "ecom_app.yaml"
    ELSE IF s = "mysql" THEN (IF st = 1 THEN "mysql.yaml" ELSE "phpmyadmin.yaml")
    ELSE IF s = "dashboard" THEN (IF st = 1 THEN "kubernetes-dashboard-ingress.yaml"
                                            ELSE "kubernetes-dashboard-secret.yaml")
    ELSE (IF st = 1 THEN "kafka.yaml" ELSE "redpanda.yaml")

\* what the operator may type at the conflict prompt
Answers == {"continue", "delete", "Delete", "yes", " YES ", "no", "1", "2", "abort"}

ClusterStates == {"Running", "Stopped", "Error", "Degraded"}
\* 'minikube status': exit status and whether stdout contains "Running"
StatusRc(c) == IF c \in {"Running", "Stopped"} THEN 0 ELSE 1
StatusSaysRunning(c) == c \in {"Running", "Degraded"}

NoPods == [own1 |-> "none", own2 |-> "none", foreign |-> "none"]

\* whether the namespace holds no resource
NsEmpty == ~svc /\ \A i \in 1..Len(PodIds) : pods[PodIds[i]] = "none"

IsApply(c) == StartsWith(c, "apply:")
Applies(l) == {i \in 1..Len(l) : IsApply(l[i])}
Issued(l, c) == \E i \in 1..Len(l) : l[i] = c

(***************************************************************************)
(* Initial states: the process has just started; the namespace is absent   *)
(* or holds any mix of settled owned and foreign resources.               *)
(***************************************************************************)
runVars == <<log, listing, listFailed, snapRows, cls, answer, prompts, decision,
             delPolls, sawAbsent, stage, nsAtApply, report>>
pollVars == <<elapsed, polls, podOut, snapPods, earlierReady, wOutcome>>
histVars == <<trail, fetch, failed, nsCreate>>

\* foreign: the states the pod of another application may be in
InitOn(foreign) ==
    /\ script \in Scripts
    /\ pc = "start"
    /\ userOk \in BOOLEAN
    /\ clusterUp \in ClusterStates
    /\ filesOk \in BOOLEAN
    /\ \/ nsPhase = "absent" /\ pods = NoPods /\ svc = FALSE
       \/ /\ nsPhase = "active"
          /\ pods \in [{"own1", "own2", "foreign"} -> {"none", "ready", "stuck"}]
          /\ pods["own1"] # "stuck" /\ pods["own2"] # "stuck"
          /\ pods["foreign"] \in foreign
          /\ script = "ecom" => pods["own2"] = "none"
          /\ svc \in BOOLEAN
    /\ runs = 0
    /\ log = <<>>
    /\ listing = ""
    /\ listFailed = FALSE
    /\ snapRows = <<>>
    /\ cls = "none"
    /\ answer = ""
    /\ prompts = 0
    /\ decision = "none"
    /\ delPolls = 0
    /\ sawAbsent = FALSE
    /\ stage = 0
    /\ nsAtApply = "none"
    /\ report = "none"
    /\ trail = <<>>
    /\ fetch = "none"
    /\ failed = ""
    /\ nsCreate = "none"
    /\ elapsed = 0
    /\ polls = 0
    /\ podOut = ""
    /\ snapPods = <<>>
    /\ earlierReady = FALSE
    /\ wOutcome = "none"
    /\ wTimeout = 0
    /\ wInterval = 0
    /\ NoIngress
    /\ ToolIdle
    /\ NoCommand
    /\ exitCode = -1

Init == InitOn({"none", "ready"})

(***************************************************************************)
(* Steps of the process.                                                  *)
(***************************************************************************)
envVars == <<nsPhase, pods, svc>>
cfgKept == <<script, userOk, clusterUp, ingressYaml, secretYaml, toolVars, execVars>>
cfgVars == <<cfgKept, secretAsked, topicMade>>
waitVars == <<wTimeout, wInterval, pollVars>>

\* sys.exit(code), or an uncaught exception (exit status 1)
Exit(code) == pc' = "exited" /\ exitCode' = code

\* interactive_menu / main: deploy_kafka.py checks the user before the menu
Start ==
    /\ pc = "start"
    /\ IF script = "kafka" /\ ~userOk THEN Exit(1) ELSE pc' = "menu" /\ exitCode' = exitCode
    /\ UNCHANGED <<cfgVars, envVars, filesOk, runs, runVars, waitVars>>
    /\ trail' = IF script = "kafka" THEN Append(trail, "identity") ELSE trail
    /\ UNCHANGED <<fetch, failed, nsCreate>>

\* menu choice 1: a deploy run begins; deploy_kafka_and_redpanda starts with
\* the namespace directory (makedirs, chdir), whose failure exits with status 1
MenuDeploy ==
    /\ pc = "menu"
    /\ script \in Scripts
    /\ runs < MaxRuns
    /\ runs' = runs + 1
    /\ \E dirOk \in BOOLEAN :
          IF script # "kafka" THEN pc' = "check_user" /\ UNCHANGED exitCode
          ELSE IF dirOk THEN pc' = "files" /\ UNCHANGED exitCode
          ELSE Exit(1)
    /\ log' = <<>>
    /\ listing' = ""
    /\ listFailed' = FALSE
    /\ snapRows' = <<>>
    /\ cls' = "none"
    /\ answer' = ""
    /\ prompts' = 0
    /\ decision' = "none"
    /\ delPolls' = 0
    /\ sawAbsent' = FALSE
    /\ stage' = 0
    /\ nsAtApply' = "none"
    /\ report' = "none"
    /\ elapsed' = 0
    /\ polls' = 0
    /\ podOut' = ""
    /\ snapPods' = <<>>
    /\ earlierReady' = FALSE
    /\ wOutcome' = "none"
    /\ topicMade' = FALSE
    /\ UNCHANGED <<cfgKept, secretAsked, envVars, filesOk, wTimeout, wInterval>>
    /\ fetch' = "none"
    /\ failed' = ""
    /\ nsCreate' = "none"
    /\ UNCHANGED trail

\* 'kubectl delete namespace' issued by an uninstall: the namespace and the
\* report the handler is left with; the command fails on an absent namespace
\* and may fail on an existing one, and the handlers catch the failure
DeleteForRemove ==
    /\ log' = <<"delete_ns">>
    /\ \E deleteOk \in BOOLEAN :
          IF deleteOk /\ nsPhase # "absent"
          THEN /\ report' = "removed"
               /\ \/ nsPhase' = "terminating" /\ UNCHANGED <<pods, svc>>
                  \/ nsPhase' = "absent" /\ pods' = NoPods /\ svc' = FALSE
          ELSE report' = "error" /\ UNCHANGED envVars

\* menu choice 2: perform_uninstallation (deploy_ecom_app.py) checks the
\* user and deletes the namespace; remove_database_namespace (deploy_mysql.py)
\* and remove_streaming_namespace (deploy_kafka.py) delete it when 'kubectl get
\* namespace' finds it; all return to the menu.  The run starts no helper
\* script: kd-secrete-generate.py puts no question and no topic is created
MenuRemove ==
    /\ pc = "menu"
    /\ script # "bridge"
    /\ runs < MaxRuns
    /\ runs' = runs + 1
    /\ listing' = ""
    /\ listFailed' = FALSE
    /\ snapRows' = <<>>
    /\ cls' = "none"
    /\ answer' = ""
    /\ prompts' = 0
    /\ decision' = "none"
    /\ delPolls' = 0
    /\ sawAbsent' = FALSE
    /\ stage' = 0
    /\ nsAtApply' = "none"
    /\ elapsed' = 0
    /\ polls' = 0
    /\ podOut' = ""
    /\ snapPods' = <<>>
    /\ earlierReady' = FALSE
    /\ wOutcome' = "none"
    /\ fetch' = "none"
    /\ failed' = ""
    /\ nsCreate' = "none"
    /\ IF script = "ecom"
       THEN /\ trail' = Append(trail, "identity")
            /\ IF userOk
               THEN DeleteForRemove /\ UNCHANGED <<pc, exitCode>>
               ELSE Exit(1) /\ log' = <<>> /\ report' = "none" /\ UNCHANGED envVars
       ELSE /\ UNCHANGED <<trail, pc, exitCode>>
            /\ IF nsPhase = "absent"
               THEN log' = <<>> /\ report' = "noop" /\ UNCHANGED envVars
               ELSE DeleteForRemove
    /\ topicMade' = FALSE
    /\ secretAsked' = FALSE
    /\ UNCHANGED <<cfgKept, filesOk, wTimeout, wInterval>>

\* menu choice 3
MenuExit ==
    /\ pc = "menu"
    /\ Exit(0)
    /\ UNCHANGED <<cfgVars, envVars, filesOk, runs, runVars, waitVars>>
    /\ UNCHANGED histVars

\* input() raises EOFError at the menu; no menu catches it, the process ends
\* with a traceback and status 1
MenuEof ==
    /\ pc = "menu"
    /\ Exit(1)
    /\ UNCHANGED <<cfgVars, envVars, filesOk, runs, runVars, waitVars>>
    /\ UNCHANGED histVars

\* check_user / verify_user, then the namespace directory (ensure_directory and
\* change_directory / verify_directories), whose failure ends the process with
\* status 1 before any file is looked at
CheckUser ==
    /\ pc = "check_user"
    /\ \E dirOk \in BOOLEAN :
          IF userOk /\ dirOk THEN pc' = "files" /\ exitCode' = exitCode ELSE Exit(1)
    /\ UNCHANGED <<cfgVars, envVars, filesOk, runs, runVars, waitVars>>
    /\ trail' = Append(trail, "identity")
    /\ UNCHANGED <<fetch, failed, nsCreate>>

\* verify_files with a fetch whose clone failure is logged and not fatal
VerifyFiles_cloneFailureIgnored ==
    /\ pc = "files"
    /\ trail' = Append(trail, "artifacts")
    /\ UNCHANGED <<failed, nsCreate>>
    /\ \/ /\ filesOk
          /\ pc' = "minikube" /\ UNCHANGED <<filesOk, fetch, exitCode>>
       \/ /\ ~filesOk
          /\ \E f \in {"ok", "clone_failed", "file_missing"} :
                /\ fetch' = IF f = "ok" THEN "none" ELSE f
                /\ pc' = "minikube"
                /\ filesOk' = (f = "ok")
                /\ UNCHANGED exitCode
    /\ UNCHANGED <<cfgVars, envVars, runs, runVars, waitVars>>

\* verify_files / fetch_files / fetch_missing_files: nothing to do when every
\* file is present; else fetch, whose outcome f is ok | clone_failed | file_missing
\* (a required file is not in the repository)
VerifyFiles ==
    /\ pc = "files"
    /\ trail' = Append(trail, "artifacts")
    /\ UNCHANGED <<failed, nsCreate>>
    /\ \/ /\ filesOk
          /\ pc' = "minikube" /\ UNCHANGED <<filesOk, fetch, exitCode>>
       \/ /\ ~filesOk
          /\ \E f \in {"ok", "clone_failed", "file_missing"} :
                /\ fetch' = IF f = "ok" THEN "none" ELSE f
                /\ IF f = "clone_failed" \/ (f = "file_missing" /\ script # "mysql")
                   THEN Exit(1) /\ UNCHANGED filesOk
                   ELSE /\ pc' = "minikube"
                        /\ filesOk' = (f = "ok")
                        /\ UNCHANGED exitCode
    /\ UNCHANGED <<cfgVars, envVars, runs, runVars, waitVars>>

\* check_minikube_status / step 3 of deploy_kafka_and_redpanda
CheckMinikube ==
    /\ pc = "minikube"
    /\ IF script = "ecom"
       THEN IF StatusRc(clusterUp) # 0 \/ ~StatusSaysRunning(clusterUp)
            THEN Exit(1) ELSE pc' = "ensure_ns" /\ exitCode' = exitCode
       ELSE IF script = "mysql"
       THEN IF ~StatusSaysRunning(clusterUp)
            THEN Exit(1) ELSE pc' = "ensure_ns" /\ exitCode' = exitCode
       ELSE IF StatusRc(clusterUp) # 0 THEN Exit(1)
            ELSE IF ~StatusSaysRunning(clusterUp) THEN Exit(0)
            ELSE pc' = "ensure_ns" /\ exitCode' = exitCode
    /\ UNCHANGED <<cfgVars, envVars, filesOk, runs, runVars, waitVars>>
    /\ trail' = Append(trail, "cluster")
    /\ UNCHANGED <<fetch, failed, nsCreate>>

\* ensure_namespace / manage_namespace / step 4: 'kubectl get namespace' answers 0
\* for a namespace that exists, terminating or not; only when it answers non-zero
\* is 'kubectl create namespace' issued, and its failure ends the process
\* ensure_namespace with the create issued whatever the existence check says
EnsureNamespace_alwaysCreates(next) ==
    /\ log' = Append(log, "create_ns")
    /\ sawAbsent' = Issued(log, "delete_ns")
    /\ \E create \in {"created", "exists", "error"} :
          IF create = "created" /\ nsPhase = "absent"
          THEN /\ nsPhase' = "active"
               /\ pc' = next
               /\ UNCHANGED <<pods, svc, nsCreate, exitCode>>
          ELSE /\ Exit(1)
               /\ nsCreate' = IF create = "created" THEN "exists" ELSE create
               /\ UNCHANGED envVars

\* The create answers created, exists (another actor created the namespace
\* after the check: 'AlreadyExists', a non-zero status) or error; check=True
\* turns both non-zero answers into CalledProcessError.
EnsureNamespace(next) ==
    IF nsPhase # "absent"
    THEN pc' = next /\ UNCHANGED <<envVars, log, sawAbsent, nsCreate, exitCode>>
    ELSE /\ log' = Append(log, "create_ns")
         /\ sawAbsent' = Issued(log, "delete_ns")
         /\ \E create \in {"created", "exists", "error"} :
               IF create = "created"
               THEN /\ nsPhase' = "active"
                    /\ pc' = next
                    /\ UNCHANGED <<pods, svc, nsCreate, exitCode>>
               ELSE /\ Exit(1)
                    /\ nsCreate' = create
                    /\ nsPhase' = IF create = "exists" THEN "active" ELSE nsPhase
                    /\ UNCHANGED <<pods, svc>>

EnsureNs ==
    /\ pc = "ensure_ns"
    /\ EnsureNamespace("inspect")
    /\ UNCHANGED <<cfgVars, filesOk, runs, listing, listFailed, snapRows, cls, answer,
                   prompts, decision, delPolls, stage, nsAtApply, report, waitVars>>
    /\ trail' = Append(trail, "namespace")
    /\ UNCHANGED <<fetch, failed>>

\* get_resources + manage_existing_resources / check_existing_resources / step 5:
\* list every resource of the namespace and classify the listing
Inspect ==
    /\ pc = "inspect"
    /\ \E ok \in BOOLEAN :
          LET recs == PodRecords(script, pods, PodIds)
              out == GetAllOutput(script, recs, svc)
          IN  /\ listFailed' = ~ok
              /\ snapRows' = ResourceRows(script, recs, svc)
              /\ listing' = IF ok THEN out ELSE ""
              /\ IF script = "kafka" /\ ~ok
                 THEN Exit(1) /\ UNCHANGED cls
                 ELSE /\ cls' = Classify(script, ok, out)
                      /\ pc' = "decide"
                      /\ UNCHANGED exitCode
    /\ UNCHANGED <<cfgVars, envVars, filesOk, runs, log, answer, prompts, decision,
                   delPolls, sawAbsent, stage, nsAtApply, report, waitVars>>
    /\ UNCHANGED histVars

\* the branch the classification selects
Decide ==
    /\ pc = "decide"
    /\ IF cls = "AllOwned"
       THEN /\ report' = "already"
            /\ IF script = "kafka" THEN Exit(0) ELSE pc' = "menu" /\ exitCode' = exitCode
            /\ UNCHANGED stage
       ELSE IF cls = "Mixed"
       THEN pc' = "prompt" /\ UNCHANGED <<report, stage, exitCode>>
       ELSE pc' = "apply" /\ stage' = 1 /\ UNCHANGED <<report, exitCode>>
    /\ UNCHANGED <<cfgVars, envVars, filesOk, runs, log, listing, listFailed, snapRows,
                   cls, answer, prompts, decision, delPolls, sawAbsent, nsAtApply, waitVars>>
    /\ UNCHANGED histVars

\* the decision each script reads from the operator's answer:
\* Recreate | Continue | Exit | Reprompt
DecisionOf(s, ans) ==
    IF s = "ecom"
    THEN (IF Lower(Strip(ans)) = "delete" THEN "Recreate"
          ELSE IF Lower(Strip(ans)) = "continue" THEN "Continue"
          ELSE "Exit")
    ELSE IF s = "mysql"
    THEN (IF Lower(ans) = "yes" THEN "Recreate" ELSE "Continue")
    ELSE (IF Strip(ans) = "2" THEN "Recreate"
          ELSE IF Strip(ans) = "1" THEN "Continue"
          ELSE "Reprompt")

\* the prompt counter: exact up to MaxPrompts, where it stays
CountPrompt(n) == IF n < MaxPrompts THEN n + 1 ELSE n

\* the conflict prompt deleting the namespace whatever the decision is
Prompt_deletesOnContinue ==
    /\ pc = "prompt"
    /\ \E ans \in Answers :
          LET d == DecisionOf(script, ans)
          IN  /\ answer' = ans
              /\ prompts' = CountPrompt(prompts)
              /\ IF d = "Exit" THEN Exit(1) /\ UNCHANGED <<decision, stage>>
                 ELSE IF d = "Reprompt" THEN UNCHANGED <<pc, decision, stage, exitCode>>
                 ELSE /\ decision' = d
                      /\ pc' = "delete_ns"
                      /\ UNCHANGED <<stage, exitCode>>
    /\ UNCHANGED <<cfgVars, envVars, filesOk, runs, log, listing, listFailed, snapRows,
                   cls, delPolls, sawAbsent, nsAtApply, report, waitVars>>
    /\ UNCHANGED histVars

\* the conflict prompt
Prompt ==
    /\ pc = "prompt"
    /\ \E ans \in Answers :
          LET d == DecisionOf(script, ans)
          IN  /\ answer' = ans
              /\ prompts' = CountPrompt(prompts)
              /\ IF d = "Exit" THEN Exit(1) /\ UNCHANGED <<decision, stage>>
                 ELSE IF d = "Reprompt" THEN UNCHANGED <<pc, decision, stage, exitCode>>
                 ELSE /\ decision' = d
                      /\ pc' = IF d = "Recreate" THEN "delete_ns" ELSE "apply"
                      /\ stage' = IF d = "Recreate" THEN stage ELSE 1
                      /\ UNCHANGED exitCode
    /\ UNCHANGED <<cfgVars, envVars, filesOk, runs, log, listing, listFailed, snapRows,
                   cls, delPolls, sawAbsent, nsAtApply, report, waitVars>>
    /\ UNCHANGED histVars

\* input() raises EOFError at the conflict prompt: deploy_kafka.py catches it
\* and calls sys.exit(1), the other scripts do not catch it and end with a
\* traceback and status 1
PromptEof ==
    /\ pc \in {"prompt", "d_prompt"}
    /\ Exit(1)
    /\ UNCHANGED <<cfgVars, envVars, filesOk, runs, runVars, waitVars>>
    /\ UNCHANGED histVars

\* 'kubectl delete namespace': when it answers 0 the namespace is gone or still
\* terminating with its resources; a non-zero answer ends the process
DeleteNs ==
    /\ pc = "delete_ns"
    /\ log' = Append(log, "delete_ns")
    /\ \E deleteOk \in BOOLEAN :
          IF deleteOk
          THEN /\ \/ nsPhase' = "terminating" /\ UNCHANGED <<pods, svc>>
                  \/ nsPhase' = "absent" /\ pods' = NoPods /\ svc' = FALSE
               /\ pc' = IF script = "kafka" THEN "wait_del" ELSE "recreate"
               /\ UNCHANGED exitCode
          ELSE Exit(1) /\ UNCHANGED envVars
    /\ answer' = ""
    /\ UNCHANGED <<cfgVars, filesOk, runs, listing, listFailed, snapRows, cls,
                   prompts, decision, delPolls, sawAbsent, stage, nsAtApply, report, waitVars>>
    /\ UNCHANGED histVars

\* deploy_kafka.py step 7: for i in range(30): sleep, get namespace, break when absent
WaitDeleted ==
    /\ pc = "wait_del"
    /\ IF nsPhase = "absent"
       THEN sawAbsent' = TRUE /\ pc' = "recreate" /\ delPolls' = 0
       ELSE /\ delPolls' = IF delPolls + 1 = DeleteWaitAttempts THEN 0 ELSE delPolls + 1
            /\ pc' = IF delPolls + 1 = DeleteWaitAttempts THEN "recreate" ELSE pc
            /\ UNCHANGED sawAbsent
    /\ UNCHANGED <<cfgVars, envVars, filesOk, runs, log, listing, listFailed, snapRows,
                   cls, answer, prompts, decision, stage, nsAtApply, report, waitVars,
                   exitCode>>
    /\ UNCHANGED histVars

\* after the delete: deploy_kafka.py creates the namespace unconditionally,
\* the others sleep and call ensure_namespace / manage_namespace
Recreate ==
    /\ pc = "recreate"
    /\ stage' = 1
    /\ IF script = "kafka"
       THEN /\ log' = Append(log, "create_ns")
            /\ UNCHANGED sawAbsent
            /\ \E createOk \in BOOLEAN :
                  IF createOk /\ nsPhase = "absent"
                  THEN nsPhase' = "active" /\ pc' = "apply" /\ UNCHANGED <<pods, svc, exitCode>>
                  ELSE Exit(1) /\ UNCHANGED envVars
            /\ UNCHANGED nsCreate
       ELSE EnsureNamespace("apply")
    /\ UNCHANGED <<cfgVars, filesOk, runs, listing, listFailed, snapRows, cls, answer,
                   prompts, decision, delPolls, nsAtApply, report, waitVars>>
    /\ UNCHANGED <<trail, fetch, failed>>

\* the pods and the service a manifest's apply leaves in the namespace
AppliedPods(ps, st) ==
    LET id == IF st = 1 THEN "own1" ELSE "own2"
    IN  IF ps[id] = "none" THEN [ps EXCEPT ![id] = "pending"] ELSE ps

\* the apply issued again when it failed, instead of ending the run
Apply_retriesOnFailure ==
    /\ pc = "apply"
    /\ Len(log) < 6
    /\ log' = Append(log, "apply:" \o Manifest(script, stage))
    /\ nsAtApply' = IF nsAtApply # "none" THEN nsAtApply
                    ELSE IF NsEmpty THEN "empty" ELSE "nonempty"
    /\ \E applyOk \in BOOLEAN :
          IF applyOk /\ nsPhase = "active"
          THEN /\ pods' = AppliedPods(pods, stage)
               /\ svc' = (svc \/ stage = 1)
               /\ pc' = IF script = "ecom" THEN "final" ELSE "wait"
               /\ wTimeout' = IF script = "mysql" THEN MysqlMaxAttempts ELSE KafkaTimeout
               /\ wInterval' = IF script = "mysql" THEN 1 ELSE KafkaInterval
               /\ elapsed' = 0
               /\ polls' = 0
               /\ podOut' = ""
               /\ snapPods' = <<>>
               /\ earlierReady' = FALSE
               /\ wOutcome' = "none"
               /\ UNCHANGED <<nsPhase, exitCode>>
          ELSE UNCHANGED <<pc, exitCode, envVars, waitVars>>
    /\ answer' = ""
    /\ UNCHANGED <<cfgVars, filesOk, runs, listing, listFailed, snapRows, cls,
                   prompts, decision, delPolls, sawAbsent, stage, report, trail, fetch,
                   failed, nsCreate>>

\* deploy_resources / steps 8 and 11: 'kubectl apply -f <manifest>'; it can
\* succeed only on an active namespace.  The apply reads its own manifest and
\* nothing else: deploy_mysql.py, whose verify_files does not look again after
\* the fetch, applies with a required file missing, and each apply of such a
\* run succeeds or fails on its own
Apply ==
    /\ pc = "apply"
    /\ log' = Append(log, "apply:" \o Manifest(script, stage))
    /\ nsAtApply' = IF nsAtApply # "none" THEN nsAtApply
                    ELSE IF NsEmpty THEN "empty" ELSE "nonempty"
    /\ \E applyOk \in BOOLEAN :
          IF applyOk /\ nsPhase = "active"
          THEN /\ pods' = AppliedPods(pods, stage)
               /\ svc' = (svc \/ stage = 1)
               /\ pc' = IF script = "ecom" THEN "final" ELSE "wait"
               /\ wTimeout' = IF script = "mysql" THEN MysqlMaxAttempts ELSE KafkaTimeout
               /\ wInterval' = IF script = "mysql" THEN 1 ELSE KafkaInterval
               /\ elapsed' = 0
               /\ polls' = 0
               /\ podOut' = ""
               /\ snapPods' = <<>>
               /\ earlierReady' = FALSE
               /\ wOutcome' = "none"
               /\ UNCHANGED <<nsPhase, failed, exitCode>>
          ELSE /\ Exit(1)
               /\ failed' = Manifest(script, stage)
               /\ UNCHANGED <<envVars, waitVars>>
    /\ answer' = ""
    /\ UNCHANGED <<cfgVars, filesOk, runs, listing, listFailed, snapRows, cls,
                   prompts, decision, delPolls, sawAbsent, stage, report, trail, fetch, nsCreate>>

\* where a wait that returned Ready continues
AfterReady(s, st) ==
    IF s = "dashboard" THEN "d_status"
    ELSE IF st = 2 THEN "final" ELSE IF s = "kafka" THEN "topic" ELSE "apply"

\* the wait loop without 'elapsed += interval' ('attempts += 1')
WaitIteration_noCount(recs, ok, next) ==
    LET out == WaitOutput(script, recs)
    IN  /\ polls' = polls + 1
        /\ podOut' = IF ok THEN out ELSE ""
        /\ snapPods' = IF ok THEN recs ELSE <<>>
        /\ earlierReady' = (earlierReady \/ (polls > 0 /\ AllReady(snapPods)))
        /\ IF PollReady(script, ok, out)
           THEN wOutcome' = "Ready" /\ pc' = next /\ UNCHANGED elapsed
           ELSE UNCHANGED <<elapsed, wOutcome, pc>>

\* the wait loop noting Ready without returning
WaitIteration_keepsPolling(recs, ok, next) ==
    LET out == WaitOutput(script, recs)
    IN  /\ polls' = polls + 1
        /\ podOut' = IF ok THEN out ELSE ""
        /\ snapPods' = IF ok THEN recs ELSE <<>>
        /\ earlierReady' = (earlierReady \/ (polls > 0 /\ AllReady(snapPods)))
        /\ elapsed' = elapsed + wInterval
        /\ wOutcome' = IF PollReady(script, ok, out) THEN "Ready" ELSE wOutcome
        /\ UNCHANGED pc

\* one iteration of wait_for_pods / wait_for_pods_ready on the pod records
\* recs: list the pods, return on ready, else sleep and count
WaitIteration(recs, ok, next) ==
    LET out == WaitOutput(script, recs)
    IN  /\ polls' = polls + 1
        /\ podOut' = IF ok THEN out ELSE ""
        /\ snapPods' = IF ok THEN recs ELSE <<>>
        /\ earlierReady' = (earlierReady \/ (polls > 0 /\ AllReady(snapPods)))
        /\ IF PollReady(script, ok, out)
           THEN wOutcome' = "Ready" /\ pc' = next /\ UNCHANGED elapsed
           ELSE elapsed' = elapsed + wInterval /\ UNCHANGED <<wOutcome, pc>>

WaitPoll ==
    /\ pc = "wait"
    /\ elapsed < wTimeout
    /\ \E ok \in BOOLEAN :
          WaitIteration(WaitedRecords(script, pods, stage), ok, AfterReady(script, stage))
    /\ stage' = IF pc' = "apply" THEN 2 ELSE stage
    /\ UNCHANGED <<cfgVars, envVars, filesOk, runs, log, listing, listFailed, snapRows,
                   cls, answer, prompts, decision, delPolls, sawAbsent, nsAtApply, report,
                   wTimeout, wInterval, exitCode>>
    /\ UNCHANGED histVars

\* the loop ends without Ready and the caller carries on with the next step
WaitTimeout_carriesOn ==
    /\ pc = "wait"
    /\ elapsed >= wTimeout
    /\ wOutcome' = "TimedOut"
    /\ pc' = AfterReady(script, stage)
    /\ stage' = IF pc' = "apply" THEN 2 ELSE stage
    /\ UNCHANGED <<cfgVars, envVars, filesOk, runs, log, listing, listFailed, snapRows,
                   cls, answer, prompts, decision, delPolls, sawAbsent, nsAtApply, report,
                   histVars, wTimeout, wInterval, elapsed, polls, podOut, snapPods,
                   earlierReady, exitCode>>

\* the loop ends without Ready: sys.exit(1)
WaitTimeout ==
    /\ pc = "wait"
    /\ elapsed >= wTimeout
    /\ wOutcome' = "TimedOut"
    /\ Exit(1)
    /\ UNCHANGED <<cfgVars, envVars, filesOk, runs, runVars, wTimeout, wInterval,
                   elapsed, polls, podOut, snapPods, earlierReady>>
    /\ UNCHANGED histVars

\* the topic creation with its failure logged and the run going on to the
\* redpanda.yaml apply
CreateTopic_ignoresFailure ==
    /\ pc = "topic"
    /\ log' = Append(log, "topic")
    /\ \E topicOk \in BOOLEAN :
          /\ topicMade' = topicOk
          /\ pc' = "apply"
          /\ stage' = 2
          /\ UNCHANGED exitCode
    /\ UNCHANGED <<cfgKept, secretAsked, envVars, filesOk, runs, listing, listFailed, snapRows, cls,
                   answer, prompts, decision, delPolls, sawAbsent, nsAtApply, report,
                   waitVars>>
    /\ UNCHANGED histVars

\* deploy_kafka.py step 10: create the topic with kubectl exec (check=True);
\* a failure of the command ends the run
CreateTopic ==
    /\ pc = "topic"
    /\ log' = Append(log, "topic")
    /\ \E topicOk \in BOOLEAN :
          /\ topicMade' = topicOk
          /\ IF topicOk THEN pc' = "apply" /\ stage' = 2 /\ UNCHANGED exitCode
             ELSE Exit(1) /\ UNCHANGED stage
    /\ UNCHANGED <<cfgKept, secretAsked, envVars, filesOk, runs, listing, listFailed, snapRows, cls,
                   answer, prompts, decision, delPolls, sawAbsent, nsAtApply, report,
                   waitVars>>
    /\ UNCHANGED histVars

\* the final listing and the success message; only deploy_kafka.py exits when
\* the final listing fails
Final ==
    /\ pc = "final"
    /\ \E ok \in BOOLEAN :
          IF script = "kafka" /\ ~ok
          THEN Exit(1) /\ UNCHANGED report
          ELSE report' = "success" /\ pc' = "menu" /\ UNCHANGED exitCode
    /\ UNCHANGED <<cfgVars, envVars, filesOk, runs, log, listing, listFailed, snapRows,
                   cls, answer, prompts, decision, delPolls, sawAbsent, stage, nsAtApply,
                   waitVars>>
    /\ UNCHANGED histVars

(***************************************************************************)
(* The cluster's own steps.                                               *)
(***************************************************************************)
\* a terminating namespace disappears with everything in it
NsFinalize ==
    /\ pc # "exited"
    /\ nsPhase = "terminating"
    /\ nsPhase' = "absent"
    /\ pods' = NoPods
    /\ svc' = FALSE
    /\ UNCHANGED <<cfgVars, pc, filesOk, runs, runVars, waitVars, exitCode>>
    /\ UNCHANGED histVars

\* a pod starts (Running, 0/1) and then becomes ready (1/1)
PodProgress ==
    /\ pc # "exited"
    /\ nsPhase = "active"
    /\ \E i \in 1..Len(PodIds) :
          /\ pods[PodIds[i]] \in {"pending", "starting"}
          /\ pods' = [pods EXCEPT ![PodIds[i]] =
                         IF pods[PodIds[i]] = "pending" THEN "starting" ELSE "ready"]
    /\ UNCHANGED <<cfgVars, pc, filesOk, nsPhase, svc, runs, runVars, waitVars, exitCode>>
    /\ UNCHANGED histVars

Next ==
    \/ Start
    \/ MenuDeploy
    \/ MenuRemove
    \/ MenuExit
    \/ MenuEof
    \/ CheckUser
    \/ VerifyFiles
    \/ CheckMinikube
    \/ EnsureNs
    \/ Inspect
    \/ Decide
    \/ Prompt
    \/ PromptEof
    \/ DeleteNs
    \/ WaitDeleted
    \/ Recreate
    \/ Apply
    \/ WaitPoll
    \/ WaitTimeout
    \/ CreateTopic
    \/ Final
    \/ NsFinalize
    \/ PodProgress

Spec == Init /\ [][Next]_vars

\* the deploy scripts on a namespace where the pod of another application
\* never becomes ready (it is shown Running with 0/1 containers ready)
StuckSpec == InitOn({"stuck"}) /\ [][Next]_vars

(***************************************************************************)
(* The waiter on its own: wait_for_pods (deploy_kafka.py,                  *)
(* deploy_kubernetes_dashboard.py) and wait_for_pods_ready                 *)
(* (deploy_mysql.py) called with parameters from WaitParams, each poll     *)
(* listing any of the pod snapshots of SnapInputs.                        *)
(***************************************************************************)
DashboardTimeout == 300
DashboardInterval == 150

WaitScripts == {"kafka", "dashboard", "mysql"}

\* <<timeout, interval>>: the defaults of each script, and the pair 10, 1
WaitParams(s) ==
    IF s = "mysql" THEN {<<MysqlMaxAttempts, 1>>}
    ELSE IF s = "kafka" THEN {<<KafkaTimeout, KafkaInterval>>, <<10, 1>>}
    ELSE {<<DashboardTimeout, DashboardInterval>>, <<10, 1>>}

Pod(n, r, t, ph) == [name |-> n, ready |-> r, total |-> t, phase |-> ph]

SnapInputs ==
    { <<>>,
      <<Pod("web-0", 0, 1, "Pending")>>,
      <<Pod("web-0", 0, 1, "Running")>>,
      <<Pod("web-0", 1, 1, "Running")>>,
      <<Pod("web-0", 1, 1, "Running"), Pod("db-0", 1, 2, "Running")>>,
      <<Pod("web-0", 1, 1, "Running"), Pod("db-0", 2, 2, "Running")>>,
      <<Pod("web-0", 1, 1, "Running"), Pod("web-1", 0, 1, "Pending")>>,
      <<Pod("job-0", 0, 0, "Pending")>> }

InitWait ==
    /\ script \in WaitScripts
    /\ pc = "wait"
    /\ userOk = TRUE
    /\ clusterUp = "Running"
    /\ filesOk = TRUE
    /\ nsPhase = "active"
    /\ pods = NoPods
    /\ svc = FALSE
    /\ runs = 1
    /\ log = <<>>
    /\ listing = ""
    /\ listFailed = FALSE
    /\ snapRows = <<>>
    /\ cls = "none"
    /\ answer = ""
    /\ prompts = 0
    /\ decision = "none"
    /\ delPolls = 0
    /\ sawAbsent = FALSE
    /\ stage = 1
    /\ nsAtApply = "none"
    /\ report = "none"
    /\ trail = <<>>
    /\ fetch = "none"
    /\ failed = ""
    /\ nsCreate = "none"
    /\ \E p \in WaitParams(script) : wTimeout = p[1] /\ wInterval = p[2]
    /\ elapsed = 0
    /\ polls = 0
    /\ podOut = ""
    /\ snapPods = <<>>
    /\ earlierReady = FALSE
    /\ wOutcome = "none"
    /\ NoIngress
    /\ ToolIdle
    /\ NoCommand
    /\ exitCode = -1

\* one iteration of the wait loop on a snapshot drawn from SnapInputs
WaitPollInput ==
    /\ pc = "wait"
    /\ elapsed < wTimeout
    /\ \E recs \in SnapInputs : \E ok \in BOOLEAN : WaitIteration(recs, ok, "returned")
    /\ UNCHANGED <<cfgVars, envVars, filesOk, runs, runVars, wTimeout, wInterval, exitCode>>
    /\ UNCHANGED histVars

NextWait ==
    \/ WaitPollInput
    \/ WaitTimeout

WaitSpec == InitWait /\ [][NextWait]_vars

\* the loop is sequential code: while it can take a step it takes one (each
\* kubectl call and each sleep returns)
WaitLiveSpec == WaitSpec /\ WF_vars(NextWait)

(***************************************************************************)
(* deploy_kubernetes_dashboard.py: the Helm-based dashboard deploy.  The   *)
(* process starts at the menu; main() is one deploy run.  filesOk says     *)
(* whether the two YAML files of step 13 are in the working directory.     *)
(***************************************************************************)
InitDash ==
    /\ script = "dashboard"
    /\ pc = "menu"
    /\ userOk \in BOOLEAN
    /\ clusterUp \in ClusterStates
    /\ filesOk \in BOOLEAN
    /\ \/ nsPhase = "absent" /\ pods = NoPods /\ svc = FALSE
       \/ /\ nsPhase = "active"
          /\ pods \in [{"own1", "own2", "foreign"} -> {"none", "ready"}]
          /\ svc \in BOOLEAN
    /\ runs = 0
    /\ log = <<>>
    /\ listing = ""
    /\ listFailed = FALSE
    /\ snapRows = <<>>
    /\ cls = "none"
    /\ answer = ""
    /\ prompts = 0
    /\ decision = "none"
    /\ delPolls = 0
    /\ sawAbsent = FALSE
    /\ stage = 0
    /\ nsAtApply = "none"
    /\ report = "none"
    /\ trail = <<>>
    /\ fetch = "none"
    /\ failed = ""
    /\ nsCreate = "none"
    /\ elapsed = 0
    /\ polls = 0
    /\ podOut = ""
    /\ snapPods = <<>>
    /\ earlierReady = FALSE
    /\ wOutcome = "none"
    /\ wTimeout = 0
    /\ wInterval = 0
    /\ ingressYaml \in {b \in BOOLEAN : filesOk => b}
    /\ secretYaml \in {b \in BOOLEAN : filesOk = (ingressYaml /\ b)}
    /\ secretAsked = FALSE
    /\ topicMade = FALSE
    /\ ToolIdle
    /\ NoCommand
    /\ exitCode = -1

\* menu choice 1: deploy_dashboard() calls main()
DashMenuDeploy ==
    /\ pc = "menu"
    /\ script = "dashboard"
    /\ runs < MaxRuns
    /\ runs' = runs + 1
    /\ pc' = "d_user"
    /\ log' = <<>>
    /\ listing' = ""
    /\ listFailed' = FALSE
    /\ snapRows' = <<>>
    /\ cls' = "none"
    /\ answer' = ""
    /\ prompts' = 0
    /\ decision' = "none"
    /\ delPolls' = 0
    /\ sawAbsent' = FALSE
    /\ stage' = 0
    /\ nsAtApply' = "none"
    /\ report' = "none"
    /\ fetch' = "none"
    /\ failed' = ""
    /\ nsCreate' = "none"
    /\ elapsed' = 0
    /\ polls' = 0
    /\ podOut' = ""
    /\ snapPods' = <<>>
    /\ earlierReady' = FALSE
    /\ wOutcome' = "none"
    /\ secretAsked' = FALSE
    /\ UNCHANGED <<cfgKept, topicMade, envVars, filesOk, trail, wTimeout, wInterval, exitCode>>

\* main steps 1-3: the user check, then the log directory and the chdir
DashCheckUser ==
    /\ pc = "d_user"
    /\ trail' = Append(trail, "identity")
    /\ \E dirOk \in BOOLEAN :
          IF userOk /\ dirOk THEN pc' = "d_minikube" /\ exitCode' = exitCode ELSE Exit(1)
    /\ UNCHANGED <<cfgVars, envVars, filesOk, runs, runVars, fetch, failed, nsCreate, waitVars>>

\* main step 4: run_command('minikube status') exits 1 on a non-zero status,
\* and main exits 1 when stdout lacks "Running"
DashCheckMinikube ==
    /\ pc = "d_minikube"
    /\ trail' = Append(trail, "cluster")
    /\ IF StatusRc(clusterUp) # 0 \/ ~StatusSaysRunning(clusterUp)
       THEN Exit(1) ELSE pc' = "d_inspect" /\ exitCode' = exitCode
    /\ UNCHANGED <<cfgVars, envVars, filesOk, runs, runVars, fetch, failed, nsCreate, waitVars>>

\* main steps 5-6: does the namespace exist, and does 'kubectl get all' list
\* anything (more than one line); cls is Absent | Empty | NonEmpty
DashInspect ==
    /\ pc = "d_inspect"
    /\ IF nsPhase = "absent"
       THEN /\ cls' = "Absent"
            /\ pc' = "d_helm"
            /\ UNCHANGED <<listing, listFailed, snapRows, exitCode>>
       ELSE \E ok \in BOOLEAN :
              LET recs == PodRecords(script, pods, PodIds)
                  resources == Strip(GetAllOutput(script, recs, svc))
              IN  /\ listFailed' = ~ok
                  /\ snapRows' = ResourceRows(script, recs, svc)
                  /\ listing' = IF ok THEN resources ELSE ""
                  /\ IF ~ok THEN Exit(1) /\ UNCHANGED cls
                     ELSE /\ cls' = IF Len(SplitLines(resources)) > 1
                                    THEN "NonEmpty" ELSE "Empty"
                          /\ pc' = IF Len(SplitLines(resources)) > 1
                                   THEN "d_prompt" ELSE "d_helm"
                          /\ UNCHANGED exitCode
    /\ UNCHANGED <<cfgVars, envVars, filesOk, runs, log, answer, prompts, decision,
                   delPolls, sawAbsent, stage, nsAtApply, report, histVars, waitVars>>

\* main step 6: 'delete' (after strip and lower) deletes, any other answer
\* continues
DashPrompt ==
    /\ pc = "d_prompt"
    /\ \E ans \in Answers :
          /\ answer' = ans
          /\ prompts' = CountPrompt(prompts)
          /\ decision' = IF Lower(Strip(ans)) = "delete" THEN "Recreate" ELSE "Continue"
          /\ pc' = IF Lower(Strip(ans)) = "delete" THEN "d_delete" ELSE "d_helm"
    /\ UNCHANGED <<cfgVars, envVars, filesOk, runs, log, listing, listFailed, snapRows,
                   cls, delPolls, sawAbsent, stage, nsAtApply, report, histVars, waitVars,
                   exitCode>>

\* run_command('kubectl delete ns kubernetes-dashboard')
DashDeleteNs ==
    /\ pc = "d_delete"
    /\ log' = Append(log, "delete_ns")
    /\ answer' = ""
    /\ \E deleteOk \in BOOLEAN :
          IF deleteOk
          THEN /\ \/ nsPhase' = "terminating" /\ UNCHANGED <<pods, svc>>
                  \/ nsPhase' = "absent" /\ pods' = NoPods /\ svc' = FALSE
               /\ pc' = "d_wait_del"
               /\ UNCHANGED exitCode
          ELSE Exit(1) /\ UNCHANGED envVars
    /\ UNCHANGED <<cfgVars, filesOk, runs, listing, listFailed, snapRows, cls,
                   prompts, decision, delPolls, sawAbsent, stage, nsAtApply, report,
                   histVars, waitVars>>

\* 'while True': leave when 'kubectl get ns' answers non-zero, else sleep 5
\* and ask again
DashWaitDeleted ==
    /\ pc = "d_wait_del"
    /\ IF nsPhase = "absent"
       THEN sawAbsent' = TRUE /\ pc' = "d_helm"
       ELSE UNCHANGED <<sawAbsent, pc>>
    /\ UNCHANGED <<cfgVars, envVars, filesOk, runs, log, listing, listFailed, snapRows,
                   cls, answer, prompts, decision, delPolls, stage, nsAtApply, report,
                   histVars, waitVars, exitCode>>

\* main step 7: 'helm upgrade --install', with --create-namespace unless the
\* namespace existed and was kept; then step 8 starts wait_for_pods
DashHelm ==
    /\ pc = "d_helm"
    /\ log' = Append(log, "helm")
    /\ nsAtApply' = IF NsEmpty THEN "empty" ELSE "nonempty"
    /\ answer' = ""
    /\ \E helmOk \in BOOLEAN :
          LET createNs == cls = "Absent" \/ decision = "Recreate"
          IN  IF helmOk /\ (nsPhase = "active" \/ (nsPhase = "absent" /\ createNs))
              THEN /\ nsPhase' = "active"
                   /\ pods' = AppliedPods(AppliedPods(pods, 1), 2)
                   /\ svc' = TRUE
                   /\ pc' = "wait"
                   /\ wTimeout' = DashboardTimeout
                   /\ wInterval' = DashboardInterval
                   /\ elapsed' = 0
                   /\ polls' = 0
                   /\ podOut' = ""
                   /\ snapPods' = <<>>
                   /\ earlierReady' = FALSE
                   /\ wOutcome' = "none"
                   /\ UNCHANGED exitCode
              ELSE Exit(1) /\ UNCHANGED <<envVars, waitVars>>
    /\ UNCHANGED <<cfgVars, filesOk, runs, listing, listFailed, snapRows, cls,
                   prompts, decision, delPolls, sawAbsent, stage, report, histVars>>

\* a step of main that runs commands through run_command and changes nothing
\* the later steps read: any command failing exits with status 1
DashStep(from, to, entry) ==
    /\ pc = from
    /\ log' = Append(log, entry)
    /\ \E ok \in BOOLEAN :
          IF ok THEN pc' = to /\ UNCHANGED exitCode ELSE Exit(1)
    /\ UNCHANGED <<cfgVars, envVars, filesOk, runs, listing, listFailed, snapRows, cls,
                   answer, prompts, decision, delPolls, sawAbsent, stage, nsAtApply,
                   report, histVars, waitVars>>

\* main step 9: display_resource_status
DashStatus == DashStep("d_status", "d_sa", "status")

\* main step 10: check_and_create_sa_and_binding
DashServiceAccount == DashStep("d_sa", "d_patch", "service_account")

\* main step 11: patch_service
DashPatch == DashStep("d_patch", "d_secret", "patch_svc")

\* replies to 'Update existing file? [y/N]: ': choice.strip().lower() == "y"
SecretReplies == {"y", " Y", "yes", "3", ""}
UpdatesSecret(r) == Lower(Strip(r)) = "y"

\* main step 12: call_secret_script starts kd-secrete-generate.py.  A missing
\* script or a failure before the file is looked at ends the process; with
\* kubernetes-dashboard-secret.yaml in place the script asks whether to update
\* it and waits for the reply; without it the script creates the file
DashSecret ==
    /\ pc = "d_secret"
    /\ log' = Append(log, "secret")
    /\ \E ok \in BOOLEAN :
          IF ~ok THEN Exit(1) /\ UNCHANGED <<filesOk, secretYaml, secretAsked>>
          ELSE IF secretYaml
               THEN /\ pc' = "d_secret_prompt"
                    /\ secretAsked' = TRUE
                    /\ UNCHANGED <<filesOk, secretYaml, exitCode>>
               ELSE /\ pc' = "d_verify"
                    /\ secretYaml' = TRUE
                    /\ filesOk' = ingressYaml
                    /\ UNCHANGED <<secretAsked, exitCode>>
    /\ UNCHANGED <<script, userOk, clusterUp, ingressYaml, topicMade, toolVars, execVars, envVars, runs,
                   listing, listFailed, snapRows, cls, answer, prompts, decision, delPolls,
                   sawAbsent, stage, nsAtApply, report, histVars, waitVars>>

\* the reply to the secret script's question: "y" backs the certificates up
\* and rewrites the file, anything else keeps it; the end of the input is an
\* EOFError in the script, whose non-zero exit ends the process
DashSecretReply ==
    /\ pc = "d_secret_prompt"
    /\ \E eof, ok \in BOOLEAN, r \in SecretReplies :
          IF eof \/ (UpdatesSecret(r) /\ ~ok) THEN Exit(1)
          ELSE pc' = "d_verify" /\ UNCHANGED exitCode
    /\ UNCHANGED <<cfgVars, envVars, filesOk, runs, log, listing, listFailed, snapRows, cls,
                   answer, prompts, decision, delPolls, sawAbsent, stage, nsAtApply,
                   report, histVars, waitVars>>

\* verify_and_apply_yaml, first loop: both files must exist
DashVerifyYaml ==
    /\ pc = "d_verify"
    /\ trail' = Append(trail, "artifacts")
    /\ IF filesOk THEN pc' = "d_apply" /\ stage' = 1 /\ UNCHANGED exitCode
       ELSE Exit(1) /\ UNCHANGED stage
    /\ UNCHANGED <<cfgVars, envVars, filesOk, runs, log, listing, listFailed, snapRows,
                   cls, answer, prompts, decision, delPolls, sawAbsent, nsAtApply, report,
                   fetch, failed, nsCreate, waitVars>>

\* the second loop goes on to the next file although the apply failed
DashApply_continuesAfterFailure ==
    /\ pc = "d_apply"
    /\ log' = Append(log, "apply:" \o Manifest(script, stage))
    /\ \E applyOk \in BOOLEAN :
          failed' = IF applyOk /\ nsPhase = "active" THEN failed
                    ELSE Manifest(script, stage)
    /\ IF stage = 1 THEN stage' = 2 /\ UNCHANGED pc
       ELSE pc' = "d_restart" /\ UNCHANGED stage
    /\ UNCHANGED <<cfgVars, envVars, filesOk, runs, listing, listFailed, snapRows, cls,
                   answer, prompts, decision, delPolls, sawAbsent, nsAtApply, report,
                   trail, fetch, nsCreate, waitVars, exitCode>>

\* verify_and_apply_yaml, second loop: run_command('kubectl apply -f <file>')
\* for one file; a failure is logged with the command and exits with status 1
DashApply ==
    /\ pc = "d_apply"
    /\ log' = Append(log, "apply:" \o Manifest(script, stage))
    /\ \E applyOk \in BOOLEAN :
          IF applyOk /\ nsPhase = "active"
          THEN /\ IF stage = 1 THEN stage' = 2 /\ UNCHANGED pc
                  ELSE pc' = "d_restart" /\ UNCHANGED stage
               /\ UNCHANGED <<failed, exitCode>>
          ELSE /\ Exit(1)
               /\ failed' = Manifest(script, stage)
               /\ UNCHANGED stage
    /\ UNCHANGED <<cfgVars, envVars, filesOk, runs, listing, listFailed, snapRows, cls,
                   answer, prompts, decision, delPolls, sawAbsent, nsAtApply, report,
                   trail, fetch, nsCreate, waitVars>>

\* main step 14: restart_ingress
DashRestart == DashStep("d_restart", "d_post", "restart_ingress")

\* main step 15: post_deployment prints the tasks and creates the token;
\* main returns to the menu
DashPost ==
    /\ pc = "d_post"
    /\ log' = Append(log, "token")
    /\ \E ok \in BOOLEAN :
          IF ok THEN report' = "success" /\ pc' = "menu" /\ UNCHANGED exitCode
          ELSE Exit(1) /\ UNCHANGED report
    /\ UNCHANGED <<cfgVars, envVars, filesOk, runs, listing, listFailed, snapRows, cls,
                   answer, prompts, decision, delPolls, sawAbsent, stage, nsAtApply,
                   histVars, waitVars>>

NextDash ==
    \/ DashMenuDeploy
    \/ MenuRemove
    \/ MenuExit
    \/ MenuEof
    \/ DashCheckUser
    \/ DashCheckMinikube
    \/ DashInspect
    \/ DashPrompt
    \/ PromptEof
    \/ DashDeleteNs
    \/ DashWaitDeleted
    \/ DashHelm
    \/ WaitPoll
    \/ WaitTimeout
    \/ DashStatus
    \/ DashServiceAccount
    \/ DashPatch
    \/ DashSecret
    \/ DashSecretReply
    \/ DashVerifyYaml
    \/ DashApply
    \/ DashRestart
    \/ DashPost
    \/ NsFinalize
    \/ PodProgress

DashSpec == InitDash /\ [][NextDash]_vars

\* main is sequential code: the delete returns, each 'kubectl get ns' and each
\* sleep of the deletion wait returns, and the loop goes on to its next test.
\* Nothing obliges the cluster to finish deleting the namespace.
DashLiveSpec == DashSpec /\ WF_vars(DashDeleteNs) /\ WF_vars(DashWaitDeleted)

(***************************************************************************)
(* deploy_mysql_kafka_bridge.py: the bridge is deployed into the 'database' *)
(* namespace of deploy_mysql.py.  There own1 is the pod mysql-0, svc the    *)
(* service mysql-svc-internal, own2 the pod of the deployment               *)
(* mysql-to-kafka, foreign any other pod.                                   *)
(***************************************************************************)
InitBridge ==
    /\ script = "bridge"
    /\ pc = "b_start"
    /\ userOk \in BOOLEAN
    /\ clusterUp \in ClusterStates
    /\ filesOk \in BOOLEAN
    /\ \/ nsPhase = "absent" /\ pods = NoPods /\ svc = FALSE
       \/ /\ nsPhase = "active"
          /\ pods \in [{"own1", "own2", "foreign"} -> {"none", "ready"}]
          /\ svc \in BOOLEAN
    /\ runs = 0
    /\ log = <<>>
    /\ listing = ""
    /\ listFailed = FALSE
    /\ snapRows = <<>>
    /\ cls = "none"
    /\ answer = ""
    /\ prompts = 0
    /\ decision = "none"
    /\ delPolls = 0
    /\ sawAbsent = FALSE
    /\ stage = 0
    /\ nsAtApply = "none"
    /\ report = "none"
    /\ trail = <<>>
    /\ fetch = "none"
    /\ failed = ""
    /\ nsCreate = "none"
    /\ elapsed = 0
    /\ polls = 0
    /\ podOut = ""
    /\ snapPods = <<>>
    /\ earlierReady = FALSE
    /\ wOutcome = "none"
    /\ wTimeout = 0
    /\ wInterval = 0
    /\ NoIngress
    /\ ToolIdle
    /\ NoCommand
    /\ exitCode = -1

\* what no step of the bridge script touches
bridgeIdle == <<listing, listFailed, snapRows, cls, answer, prompts, decision, delPolls,
                sawAbsent, nsAtApply, nsCreate, waitVars>>

\* interactive_menu: the user check comes before the menu
BridgeStart ==
    /\ pc = "b_start"
    /\ trail' = Append(trail, "identity")
    /\ IF userOk THEN pc' = "menu" /\ UNCHANGED exitCode ELSE Exit(1)
    /\ UNCHANGED <<cfgVars, envVars, filesOk, runs, log, stage, report, fetch, failed,
                   bridgeIdle>>

\* menu choice 1: deploy_bridge, up to the directory setup
BridgeMenuDeploy ==
    /\ pc = "menu"
    /\ script = "bridge"
    /\ runs < MaxRuns
    /\ runs' = runs + 1
    /\ log' = <<>>
    /\ stage' = 0
    /\ report' = "none"
    /\ fetch' = "none"
    /\ failed' = ""
    /\ \E dirOk \in BOOLEAN :
          IF dirOk THEN pc' = "b_files" /\ UNCHANGED exitCode ELSE Exit(1)
    /\ UNCHANGED <<cfgVars, envVars, filesOk, trail, bridgeIdle>>

\* deploy_bridge: the required files, fetched by fetch_missing_files when one
\* is missing; a failed clone or a file missing from the repository exits
BridgeFiles ==
    /\ pc = "b_files"
    /\ trail' = Append(trail, "artifacts")
    /\ IF filesOk
       THEN pc' = "b_minikube" /\ UNCHANGED <<filesOk, fetch, exitCode>>
       ELSE \E f \in {"ok", "clone_failed", "file_missing"} :
               /\ fetch' = IF f = "ok" THEN "none" ELSE f
               /\ filesOk' = (f = "ok")
               /\ IF f = "ok" THEN pc' = "b_minikube" /\ UNCHANGED exitCode ELSE Exit(1)
    /\ UNCHANGED <<cfgVars, envVars, runs, log, stage, report, failed, bridgeIdle>>

\* deploy_bridge: 'minikube status' with check=True; exit status 0 when
\* stdout lacks "Running"
BridgeMinikube ==
    /\ pc = "b_minikube"
    /\ trail' = Append(trail, "cluster")
    /\ IF StatusRc(clusterUp) # 0 THEN Exit(1)
       ELSE IF ~StatusSaysRunning(clusterUp) THEN Exit(0)
       ELSE pc' = "b_namespace" /\ UNCHANGED exitCode
    /\ UNCHANGED <<cfgVars, envVars, filesOk, runs, log, stage, report, fetch, failed,
                   bridgeIdle>>

\* deploy_bridge: the 'database' namespace must exist
BridgeNamespace ==
    /\ pc = "b_namespace"
    /\ trail' = Append(trail, "namespace")
    /\ IF nsPhase = "absent" THEN Exit(1) ELSE pc' = "b_apply" /\ UNCHANGED exitCode
    /\ UNCHANGED <<cfgVars, envVars, filesOk, runs, log, stage, report, fetch, failed,
                   bridgeIdle>>

\* deploy_bridge: 'kubectl apply -f mysql-kafka-bridge.yaml -n database'
BridgeApply ==
    /\ pc = "b_apply"
    /\ log' = Append(log, "apply:mysql-kafka-bridge.yaml")
    /\ stage' = 1
    /\ \E applyOk \in BOOLEAN :
          IF applyOk /\ nsPhase = "active"
          THEN /\ pods' = AppliedPods(pods, 2)
               /\ pc' = "b_rollout"
               /\ UNCHANGED <<nsPhase, svc, failed, exitCode>>
          ELSE /\ Exit(1)
               /\ failed' = "mysql-kafka-bridge.yaml"
               /\ UNCHANGED envVars
    /\ UNCHANGED <<cfgVars, filesOk, runs, report, trail, fetch, bridgeIdle>>

\* deploy_bridge: 'kubectl rollout status deployment/mysql-to-kafka
\* --timeout=180s' answers 0 once the deployment's pod is ready, non-zero on
\* its timeout or any other failure
BridgeRollout ==
    /\ pc = "b_rollout"
    /\ log' = Append(log, "rollout_status")
    /\ \E ok \in BOOLEAN :
          IF ok /\ nsPhase = "active" /\ pods["own2"] = "ready"
          THEN pc' = "b_final" /\ UNCHANGED exitCode
          ELSE Exit(1)
    /\ UNCHANGED <<cfgVars, envVars, filesOk, runs, stage, report, histVars, listing,
                   listFailed, snapRows, cls, answer, prompts, decision, delPolls,
                   sawAbsent, nsAtApply, waitVars>>

\* deploy_bridge: the final listing and the success message
BridgeFinal ==
    /\ pc = "b_final"
    /\ \E ok \in BOOLEAN :
          IF ok THEN report' = "success" /\ pc' = "menu" /\ UNCHANGED exitCode
          ELSE Exit(1) /\ UNCHANGED report
    /\ UNCHANGED <<cfgVars, envVars, filesOk, runs, log, stage, histVars, listing,
                   listFailed, snapRows, cls, answer, prompts, decision, delPolls,
                   sawAbsent, nsAtApply, waitVars>>

\* remove_bridge_resource deleting the namespace, as the other scripts'
\* uninstall does
BridgeMenuRemove_deletesNamespace ==
    /\ pc = "menu"
    /\ script = "bridge"
    /\ runs < MaxRuns
    /\ runs' = runs + 1
    /\ stage' = 0
    /\ fetch' = "none"
    /\ failed' = ""
    /\ IF nsPhase = "absent"
       THEN log' = <<>> /\ report' = "noop" /\ UNCHANGED envVars
       ELSE /\ log' = <<"delete_ns">>
            /\ report' = "removed"
            /\ nsPhase' = "absent"
            /\ pods' = NoPods
            /\ svc' = FALSE
    /\ UNCHANGED <<cfgVars, filesOk, pc, exitCode, trail, bridgeIdle>>

\* menu choice 2: remove_bridge_resource; with the namespace present it runs
\* 'kubectl delete -f mysql-kafka-bridge.yaml', which removes the deployment
\* and fails when the deployment does not exist
BridgeMenuRemove ==
    /\ pc = "menu"
    /\ script = "bridge"
    /\ runs < MaxRuns
    /\ runs' = runs + 1
    /\ stage' = 0
    /\ fetch' = "none"
    /\ failed' = ""
    /\ IF nsPhase = "absent"
       THEN log' = <<>> /\ report' = "noop" /\ UNCHANGED envVars
       ELSE /\ log' = <<"delete_manifest">>
            /\ \E deleteOk \in BOOLEAN :
                  IF deleteOk /\ pods["own2"] # "none"
                  THEN /\ report' = "removed"
                       /\ pods' = [pods EXCEPT !["own2"] = "none"]
                       /\ UNCHANGED <<nsPhase, svc>>
                  ELSE report' = "error" /\ UNCHANGED envVars
    /\ UNCHANGED <<cfgVars, filesOk, pc, exitCode, trail, bridgeIdle>>

NextBridge ==
    \/ BridgeStart
    \/ BridgeMenuDeploy
    \/ BridgeMenuRemove
    \/ MenuExit
    \/ MenuEof
    \/ BridgeFiles
    \/ BridgeMinikube
    \/ BridgeNamespace
    \/ BridgeApply
    \/ BridgeRollout
    \/ BridgeFinal
    \/ PodProgress

BridgeSpec == InitBridge /\ [][NextBridge]_vars

\* the deploy scripts together: the process runs one of the four
DeploySpec == (Init \/ InitDash) /\ [][Next \/ NextDash]_vars

(***************************************************************************)
(* The command executors: run_command of deploy_kafka.py and of            *)
(* minikube-manager.py, and DashboardSetup.execute_command of              *)
(* deploy_k8s_dashboard.py.  A call is given by the executor, its flag     *)
(* (check for run_command, wait for execute_command), capture_output, and  *)
(* the command's exit status and stdout.                                   *)
(***************************************************************************)
Executors == {"deploy_kafka", "minikube-manager", "deploy_k8s_dashboard"}
ExitStatuses == {0, 1, 2}
Outputs == {"", "Running", " v1.35.0\n"}

Returned(v) == [kind |-> "returned", value |-> v]
Exited == [kind |-> "exited", value |-> ""]

\* run_command: sys.exit(1) on a non-zero exit when check is set; without
\* capture_output result.stdout is None and .strip() raises AttributeError,
\* which the except clause turns into sys.exit(1)
run_command(check, capture, rc, out) ==
    IF check /\ rc # 0 THEN Exited
    ELSE IF ~capture THEN Exited
    ELSE Returned(Strip(out))

\* execute_command: subprocess.run(check=True) raises CalledProcessError on
\* every non-zero exit and the handler raises SystemExit; wait only sleeps
execute_command(wait, rc, out) ==
    IF rc # 0 THEN Exited ELSE Returned(Strip(out))

\* the executor of each script
Execute(exec, flag, capture, rc, out) ==
    IF exec = "deploy_k8s_dashboard" THEN execute_command(flag, rc, out)
    ELSE run_command(flag, capture, rc, out)

\* what the scripts outside a run leave at their initial values
RunIdle ==
    /\ filesOk = TRUE
    /\ nsPhase = "absent"
    /\ pods = NoPods
    /\ svc = FALSE
    /\ listing = ""
    /\ listFailed = FALSE
    /\ snapRows = <<>>
    /\ cls = "none"
    /\ answer = ""
    /\ prompts = 0
    /\ decision = "none"
    /\ delPolls = 0
    /\ sawAbsent = FALSE
    /\ stage = 0
    /\ nsAtApply = "none"
    /\ fetch = "none"
    /\ failed = ""
    /\ nsCreate = "none"
    /\ elapsed = 0
    /\ polls = 0
    /\ podOut = ""
    /\ snapPods = <<>>
    /\ earlierReady = FALSE
    /\ wOutcome = "none"
    /\ wTimeout = 0
    /\ wInterval = 0
runIdle == <<filesOk, ingressYaml, secretYaml, secretAsked, topicMade, envVars, listing, listFailed, snapRows, cls, answer, prompts,
             decision, delPolls, sawAbsent, stage, nsAtApply, fetch, failed, nsCreate,
             waitVars>>

InitExec ==
    /\ script = "executor"
    /\ pc = "call"
    /\ userOk = TRUE
    /\ clusterUp = "Running"
    /\ RunIdle
    /\ runs = 0
    /\ log = <<>>
    /\ report = "none"
    /\ trail = <<>>
    /\ NoIngress
    /\ ToolIdle
    /\ cmdExec \in Executors
    /\ cmdFlag \in BOOLEAN
    /\ cmdCapture \in BOOLEAN
    /\ cmdRc \in ExitStatuses
    /\ cmdOut \in Outputs
    /\ cmdRet = [kind |-> "none", value |-> ""]
    /\ exitCode = -1

\* one call of the executor
ExecuteCommand ==
    /\ pc = "call"
    /\ script = "executor"
    /\ cmdRet' = Execute(cmdExec, cmdFlag, cmdCapture, cmdRc, cmdOut)
    /\ IF cmdRet'.kind = "exited" THEN Exit(1)
       ELSE pc' = "returned" /\ UNCHANGED exitCode
    /\ UNCHANGED <<script, userOk, clusterUp, toolVars, runIdle, runs, log, report, trail,
                   cmdExec, cmdFlag, cmdCapture, cmdRc, cmdOut>>

NextExec == ExecuteCommand

ExecSpec == InitExec /\ [][NextExec]_vars

(***************************************************************************)
(* minikube-manager.py: the menu of main/show_menu and its operations.     *)
(* clusterUp is the cluster's host state, installed whether minikube is on *)
(* the PATH, newer whether a newer minikube than the installed one exists, *)
(* kubectl the state of kubectl; log holds the commands and completions of *)
(* the current operation in order, report the last message.  An operation  *)
(* that asks the operator a question stops at the question: the reply is a *)
(* step of its own.                                                        *)
(***************************************************************************)
ManagerHosts == {"Running", "Stopped", "Nonexistent"}
KubectlStates == {"absent", "old", "latest"}

\* stdout of "minikube status --format='{{.Host}}'"
HostOut(h) == IF h = "Nonexistent" THEN "" ELSE h

MINIKUBE_START_CMD ==
    "minikube start --driver=docker --apiserver-ips=192.168.29.223 " \o
    "--extra-config=apiserver.enable-admission-plugins=NamespaceLifecycle,LimitRanger,ServiceAccount"
StartOutputs == {"", "* Starting control plane node minikube\n"}

\* replies at a [y/N] question: reply.strip().lower().startswith("y")
ManagerReplies == {"y", " YES", "n", ""}
SaysYes(r) == Len(Lower(Strip(r))) > 0 /\ SubSeq(Lower(Strip(r)), 1, 1) = "y"

\* what the environment decides during one step; each step draws the fields
\* it reads and leaves the others at these values
DefaultInput ==
    [eof |-> FALSE,          \* input() raises EOFError
     reply |-> "n",          \* the operator's reply
     mkdirOk |-> TRUE,       \* os.makedirs(backup_path) succeeds
     apiOk |-> TRUE,         \* kubectl reaches the API server of a Running cluster
     stopOk |-> TRUE,        \* 'minikube stop' exits 0
     deleteOk |-> TRUE,      \* 'minikube delete' exits 0
     restartOk |-> TRUE,     \* the start of 'minikube delete && minikube start' exits 0
     versionOk |-> TRUE,     \* 'minikube version' and 'minikube update-check' exit 0
     installOk |-> TRUE,     \* download and install of the minikube binary exit 0
     cfgOk |-> TRUE,         \* the commands of post_start_configuration exit 0
     kubectlOk |-> TRUE,     \* the version queries, download and install of kubectl exit 0
     rmOk |-> TRUE,          \* 'sudo rm -f' removes minikube from the PATH
     rmKubectlOk |-> TRUE,   \* 'sudo rm -f' removes kubectl from the PATH
     startRc |-> 0,          \* exit status and stdout of MINIKUBE_START_CMD
     startOut |-> "",
     updRc |-> 0,            \* exit status and stdout of perform_update's 'minikube start'
     updOut |-> ""]

BackupInputs ==
    {[DefaultInput EXCEPT !.mkdirOk = a, !.apiOk = b, !.stopOk = c] : a, b, c \in BOOLEAN}
DeleteInputs == {[i EXCEPT !.deleteOk = d] : i \in BackupInputs, d \in BOOLEAN}
StartInputs ==
    {[DefaultInput EXCEPT !.versionOk = v, !.cfgOk = c, !.startRc = r, !.startOut = o] :
        v, c \in BOOLEAN, r \in {0, 1}, o \in StartOutputs}
UpdateInputs ==
    {[i EXCEPT !.versionOk = v, !.installOk = n, !.cfgOk = c, !.restartOk = s,
               !.updRc = r, !.updOut = o] :
        i \in DeleteInputs, v, n, c, s \in BOOLEAN, r \in {0, 1}, o \in StartOutputs}
UpdateStartInputs ==
    {[i EXCEPT !.startRc = r, !.startOut = o] :
        i \in UpdateInputs, r \in {0, 1}, o \in StartOutputs}
KubectlInputs ==
    {[DefaultInput EXCEPT !.versionOk = v, !.kubectlOk = k] : v, k \in BOOLEAN}
UninstallInputs ==
    {[DefaultInput EXCEPT !.deleteOk = d, !.rmOk = m, !.rmKubectlOk = k] :
        d, m, k \in BOOLEAN}
\* the inputs of S with a reply, or the end of the input, at the question
Replied(S) ==
    {[i EXCEPT !.reply = r] : i \in S, r \in ManagerReplies}
        \cup {[DefaultInput EXCEPT !.eof = TRUE]}

\* the tools and the cluster as the operations see and change them
Tools(h, i, n, k) == [host |-> h, inst |-> i, newer |-> n, kubectl |-> k]

\* the effect of a piece of an operation: the commands it issued, the tools
\* it left, whether it ended the process, its last message, and where the
\* process is next (the menu, or a question)
Eff(c, t, x, m, nx) == [cmds |-> c, t |-> t, exited |-> x, msg |-> m, next |-> nx]
Done(c, t, m, nx) == Eff(c, t, FALSE, m, nx)
Dies(c, t) == Eff(c, t, TRUE, "none", "exited")

\* e, then F on the tools e left, unless e ended the process
AndThen(e, F(_)) ==
    IF e.exited THEN e
    ELSE LET g == F(e.t)
         IN  Eff(e.cmds \o g.cmds, g.t, g.exited, g.msg, g.next)

\* the host state after 'minikube stop' / 'minikube start' with the given outcome
AfterStop(h, ok) == IF ok /\ h = "Running" THEN "Stopped" ELSE h
AfterStart(h, rc) == IF rc = 0 THEN "Running" ELSE h

\* backup_resources: directory, namespace listing (check=True), resource
\* dumps, 'minikube stop 2>/dev/null' (check=False), archive, completion
backup_resources(t, in, nx) ==
    IF ~in.mkdirOk THEN Eff(<<>>, t, TRUE, "backup_dir_failed", "exited")
    ELSE IF ~(t.host = "Running" /\ t.kubectl # "absent" /\ in.apiOk)
         THEN Dies(<<"kubectl get namespaces">>, t)
         ELSE Done(<<"kubectl get namespaces", "minikube stop 2>/dev/null", "backup_completed">>,
                   [t EXCEPT !.host = AfterStop(t.host, in.stopOk /\ t.inst)],
                   "backup_completed", nx)

\* post_start_configuration: 'minikube docker-env', the namespaces, the addons
\* and the cluster information run with check=True, so they end the process
\* when the cluster is not running
post_start_configuration(t, in, nx) ==
    IF t.host = "Running" /\ t.inst /\ t.kubectl # "absent" /\ in.cfgOk
    THEN Done(<<"post_start_configuration">>, t, "none", nx)
    ELSE Dies(<<"post_start_configuration">>, t)

\* if run_command(cmd, check=False): the truth value of the returned stdout
Truthy(ret) == ret.kind = "returned" /\ ret.value # ""

\* perform_update
perform_update(t, in, nx) ==
    IF ~(t.inst /\ in.versionOk) THEN Dies(<<>>, t)
    ELSE IF ~t.newer THEN Done(<<>>, t, "already_latest", nx)
    ELSE AndThen(backup_resources(t, in, nx), LAMBDA t1 :
            IF ~in.installOk THEN Dies(<<"install_binary">>, t1)
            ELSE LET t2 == [t1 EXCEPT !.newer = FALSE,
                                      !.host = AfterStart(t1.host, in.updRc)]
                     clean == <<"install_binary", "minikube start",
                                "minikube delete && minikube start">>
                 IN  IF Truthy(run_command(FALSE, TRUE, in.updRc, in.updOut))
                     THEN AndThen(Done(<<"install_binary", "minikube start">>, t2, "none", nx),
                                  LAMBDA t3 : post_start_configuration(t3, in, nx))
                     ELSE IF ~in.deleteOk THEN Dies(clean, t2)
                     ELSE IF ~in.restartOk THEN Dies(clean, [t2 EXCEPT !.host = "Nonexistent"])
                     ELSE AndThen(Done(clean, [t2 EXCEPT !.host = "Running"], "none", nx),
                                  LAMBDA t3 : post_start_configuration(t3, in, nx)))

\* start_minikube from "Starting cluster..." on
StartCluster(t, in, nx) ==
    LET t1 == [t EXCEPT !.host = AfterStart(t.host, in.startRc)]
    IN  IF Truthy(run_command(FALSE, TRUE, in.startRc, in.startOut))
        THEN AndThen(Done(<<MINIKUBE_START_CMD>>, t1, "none", nx),
                     LAMBDA t2 : post_start_configuration(t2, in, nx))
        ELSE Done(<<MINIKUBE_START_CMD>>, t1, "start_failed", nx)

\* start_minikube up to its question: with a newer version it asks 'Update
\* before starting?' and waits at pc ask
start_minikube(t, in, nx, ask) ==
    IF ~t.inst THEN Done(<<>>, t, "not_installed", nx)
    ELSE IF HostOut(t.host) = "Running" THEN Done(<<>>, t, "already_running", nx)
    ELSE IF ~in.versionOk THEN Dies(<<>>, t)
    ELSE IF t.newer THEN Done(<<>>, t, "none", ask)
    ELSE StartCluster(t, in, nx)

\* start_minikube from the reply to 'Update before starting?' on
StartReply(t, in, nx) ==
    IF in.eof THEN Dies(<<>>, t)
    ELSE IF SaysYes(in.reply)
         THEN AndThen(perform_update(t, in, nx), LAMBDA t1 : StartCluster(t1, in, nx))
         ELSE StartCluster(t, in, nx)

\* stop_minikube
stop_minikube(t, in) ==
    IF ~t.inst THEN Done(<<>>, t, "not_installed", "menu")
    ELSE IF HostOut(t.host) = "Stopped" THEN Done(<<>>, t, "already_stopped", "menu")
    ELSE IF HostOut(t.host) = "Running"
         THEN AndThen(backup_resources(t, in, "menu"), LAMBDA t1 :
                 IF t1.host = "Running" /\ ~in.stopOk
                 THEN Dies(<<"minikube stop">>, t1)
                 ELSE Done(<<"minikube stop">>, [t1 EXCEPT !.host = AfterStop(t1.host, TRUE)],
                           "stopping", "menu"))
         ELSE Done(<<>>, t, "not_running", "menu")

\* delete_minikube
delete_minikube(t, in) ==
    IF ~t.inst THEN Done(<<>>, t, "not_installed", "menu")
    ELSE AndThen(IF HostOut(t.host) = "Running" THEN backup_resources(t, in, "menu")
                 ELSE Done(<<>>, t, "none", "menu"),
                 LAMBDA t1 :
                    IF in.deleteOk
                    THEN Done(<<"minikube delete">>, [t1 EXCEPT !.host = "Nonexistent"],
                              "deleting", "menu")
                    ELSE Dies(<<"minikube delete">>, t1))

\* install_minikube, the end: the versions are read and printed
InstallFinal(t, in) ==
    IF t.inst /\ t.kubectl # "absent" /\ in.versionOk
    THEN Done(<<>>, t, "install_completed", "menu")
    ELSE Dies(<<>>, t)

\* install_minikube, the kubectl part up to its question ('Would you like to
\* upgrade kubectl?', asked when kubectl is not the latest)
InstallKubectl(t, in) ==
    IF t.kubectl = "absent"
    THEN IF ~in.kubectlOk THEN Dies(<<"install_kubectl">>, t)
         ELSE AndThen(Done(<<"install_kubectl">>, [t EXCEPT !.kubectl = "latest"], "none", "menu"),
                      LAMBDA t1 : InstallFinal(t1, in))
    ELSE IF ~in.kubectlOk THEN Dies(<<>>, t)
    ELSE IF t.kubectl = "old" THEN Done(<<>>, t, "none", "i_kubectl_prompt")
    ELSE InstallFinal(t, in)

\* install_minikube from the reply to 'Would you like to upgrade kubectl?' on;
\* a refusal ends the process with status 1
KubectlReply(t, in) ==
    IF in.eof THEN Dies(<<>>, t)
    ELSE IF ~SaysYes(in.reply) THEN Eff(<<>>, t, TRUE, "kubectl_required", "exited")
    ELSE IF ~in.kubectlOk THEN Dies(<<"install_kubectl">>, t)
    ELSE AndThen(Done(<<"install_kubectl">>, [t EXCEPT !.kubectl = "latest"], "none", "menu"),
                 LAMBDA t1 : InstallFinal(t1, in))

\* install_minikube up to its first question, or, when minikube is missing,
\* its installation
install_minikube(t, in) ==
    IF t.inst
    THEN IF ~in.versionOk THEN Dies(<<>>, t)
         ELSE Done(<<>>, t, "already_installed",
                   IF t.newer THEN "i_upgrade_prompt" ELSE "i_start_prompt")
    ELSE IF ~in.installOk THEN Dies(<<"install_binary">>, t)
    ELSE Done(<<"install_binary">>, [t EXCEPT !.inst = TRUE, !.newer = FALSE],
              "installed", "i_kubectl")

\* install_minikube from the reply to 'Would you like to upgrade Minikube?' on
UpgradeReply(t, in) ==
    IF in.eof THEN Dies(<<>>, t)
    ELSE IF SaysYes(in.reply)
         THEN AndThen(perform_update(t, in, "i_kubectl"), LAMBDA t1 :
                 IF in.versionOk THEN Done(<<>>, t1, "none", "i_kubectl") ELSE Dies(<<>>, t1))
         ELSE Done(<<>>, t, "none", "i_start_prompt")

\* install_minikube from the reply to 'Start Minikube (with the current
\* version)?' on
StartAsked(t, in) ==
    IF in.eof THEN Dies(<<>>, t)
    ELSE IF SaysYes(in.reply) THEN start_minikube(t, in, "i_kubectl", "i_update_prompt")
    ELSE Done(<<>>, t, "none", "i_kubectl")

\* uninstall_minikube from the reply to its confirmation question on: every
\* command runs with check=False
uninstall_minikube(t, in) ==
    IF in.eof THEN Dies(<<>>, t)
    ELSE IF ~SaysYes(in.reply) THEN Done(<<>>, t, "uninstall_cancelled", "menu")
    ELSE Done(IF t.inst THEN <<"minikube delete --all --purge">> ELSE <<>>,
              [t EXCEPT !.host = IF t.inst /\ in.deleteOk THEN "Nonexistent" ELSE t.host,
                        !.inst = t.inst /\ ~in.rmOk,
                        !.kubectl = IF in.rmKubectlOk THEN "absent" ELSE t.kubectl],
              "uninstalled", "menu")

\* show_status
show_status(t, in) ==
    IF ~t.inst THEN Done(<<>>, t, "not_installed", "menu")
    ELSE IF ~in.versionOk THEN Dies(<<>>, t)
    ELSE Done(<<>>, t, "status", "menu")

InitManager ==
    /\ script = "manager"
    /\ pc = "m_start"
    /\ userOk \in BOOLEAN
    /\ clusterUp \in ManagerHosts
    /\ RunIdle
    /\ runs = 0
    /\ log = <<>>
    /\ report = "none"
    /\ trail = <<>>
    /\ NoIngress
    /\ installed \in BOOLEAN
    /\ deployed = FALSE
    /\ newer \in BOOLEAN
    /\ kubectl \in KubectlStates
    /\ NoCommand
    /\ exitCode = -1

\* main: verify_user before the menu loop
ManagerStart ==
    /\ pc = "m_start"
    /\ trail' = Append(trail, "identity")
    /\ IF userOk THEN pc' = "menu" /\ UNCHANGED exitCode ELSE Exit(1)
    /\ UNCHANGED <<script, userOk, clusterUp, toolVars, execVars, runIdle, runs, log, report>>

\* the tools before the step
Now == Tools(clusterUp, installed, newer, kubectl)

\* whether the commands hold the cluster start command of start_minikube
IssuesStart(cmds) == \E i \in 1..Len(cmds) : cmds[i] = MINIKUBE_START_CMD

\* one step of an operation, from the menu or from a question, with effect e
\* under the inputs in; the executor's state keeps the call that ran
\* MINIKUBE_START_CMD
ManagerStep(from, e, in) ==
    /\ pc = from
    /\ script = "manager"
    /\ IF from = "menu"
       THEN runs < MaxRuns /\ runs' = runs + 1 /\ log' = e.cmds
       ELSE UNCHANGED runs /\ log' = log \o e.cmds
    /\ report' = e.msg
    /\ clusterUp' = e.t.host
    /\ installed' = e.t.inst
    /\ newer' = e.t.newer
    /\ kubectl' = e.t.kubectl
    /\ IF e.exited THEN Exit(1) ELSE pc' = e.next /\ UNCHANGED exitCode
    /\ IF IssuesStart(e.cmds)
       THEN /\ cmdExec' = "minikube-manager"
            /\ cmdFlag' = FALSE
            /\ cmdCapture' = TRUE
            /\ cmdRc' = in.startRc
            /\ cmdOut' = in.startOut
            /\ cmdRet' = run_command(FALSE, TRUE, in.startRc, in.startOut)
       ELSE IF from = "menu" THEN ClearCommand ELSE UNCHANGED execVars
    /\ UNCHANGED <<script, userOk, deployed, runIdle, trail>>

\* choice 1: install_minikube
ManagerMenuInstall ==
    \E in \in {[DefaultInput EXCEPT !.versionOk = v, !.installOk = n] : v, n \in BOOLEAN} :
        ManagerStep("menu", install_minikube(Now, in), in)

\* the reply to 'Would you like to upgrade Minikube?'
ManagerUpgradeReply ==
    \E in \in Replied(UpdateInputs) : ManagerStep("i_upgrade_prompt", UpgradeReply(Now, in), in)

\* the reply to 'Start Minikube?' / 'Start Minikube with the current version?'
ManagerStartAsked ==
    \E in \in Replied(StartInputs) : ManagerStep("i_start_prompt", StartAsked(Now, in), in)

\* install_minikube, the kubectl part
ManagerInstallKubectl ==
    \E in \in KubectlInputs : ManagerStep("i_kubectl", InstallKubectl(Now, in), in)

\* the reply to 'Would you like to upgrade kubectl?'
ManagerKubectlReply ==
    \E in \in Replied(KubectlInputs) :
        ManagerStep("i_kubectl_prompt", KubectlReply(Now, in), in)

\* choice 2: show_status
ManagerMenuStatus ==
    \E in \in {[DefaultInput EXCEPT !.versionOk = v] : v \in BOOLEAN} :
        ManagerStep("menu", show_status(Now, in), in)

\* choice 3: start_minikube
ManagerMenuStart ==
    \E in \in StartInputs :
        ManagerStep("menu", start_minikube(Now, in, "menu", "m_update_prompt"), in)

\* the reply to 'Update before starting?', in start_minikube called from the
\* menu or from install_minikube
ManagerStartReply ==
    \E in \in Replied(UpdateStartInputs) :
        \/ ManagerStep("m_update_prompt", StartReply(Now, in, "menu"), in)
        \/ ManagerStep("i_update_prompt", StartReply(Now, in, "i_kubectl"), in)

\* choice 4: stop_minikube
ManagerMenuStop ==
    \E in \in BackupInputs : ManagerStep("menu", stop_minikube(Now, in), in)

\* choice 5: perform_update
ManagerMenuUpgrade ==
    \E in \in UpdateInputs : ManagerStep("menu", perform_update(Now, in, "menu"), in)

\* choice 6: delete_minikube
ManagerMenuDelete ==
    \E in \in DeleteInputs : ManagerStep("menu", delete_minikube(Now, in), in)

\* choice 7: backup_resources
ManagerMenuBackup ==
    \E in \in BackupInputs : ManagerStep("menu", backup_resources(Now, in, "menu"), in)

\* choice 8 (Restore Resources, not implemented), a number outside 1..10 or
\* an input that is no number: a message, and the menu again
ManagerMenuOther ==
    ManagerStep("menu", Done(<<>>, Now, "nothing_done", "menu"), DefaultInput)

\* choice 9: uninstall_minikube prints its warning and asks 'Do you want to
\* proceed with the uninstallation?'
ManagerMenuUninstall ==
    ManagerStep("menu", Done(<<>>, Now, "none", "m_uninstall_prompt"), DefaultInput)

\* the reply to 'Do you want to proceed with the uninstallation?'
ManagerUninstallReply ==
    \E in \in Replied(UninstallInputs) :
        ManagerStep("m_uninstall_prompt", uninstall_minikube(Now, in), in)

\* while the process waits for the operator, the cluster may be started,
\* stopped or deleted from elsewhere
ManagerHostChanges ==
    /\ script = "manager"
    /\ pc \in {"menu", "m_update_prompt", "m_uninstall_prompt", "i_upgrade_prompt", "i_start_prompt",
               "i_update_prompt", "i_kubectl_prompt"}
    /\ clusterUp' \in ManagerHosts \ {clusterUp}
    /\ UNCHANGED <<script, userOk, toolVars, execVars, runIdle, runs, log, report, trail,
                   pc, exitCode>>

NextManager ==
    \/ ManagerStart
    \/ ManagerMenuInstall
    \/ ManagerUpgradeReply
    \/ ManagerStartAsked
    \/ ManagerInstallKubectl
    \/ ManagerKubectlReply
    \/ ManagerMenuStatus
    \/ ManagerMenuStart
    \/ ManagerStartReply
    \/ ManagerMenuStop
    \/ ManagerMenuUpgrade
    \/ ManagerMenuDelete
    \/ ManagerMenuBackup
    \/ ManagerMenuOther
    \/ ManagerMenuUninstall
    \/ ManagerUninstallReply
    \/ ManagerHostChanges
    \/ MenuExit
    \/ MenuEof

ManagerSpec == InitManager /\ [][NextManager]_vars

(***************************************************************************)
(* deploy_velero.py: each run of the script is one menu choice, after      *)
(* which the process ends; the operator may run the script again on the    *)
(* same cluster.  installed is whether the velero CLI is on the PATH,      *)
(* deployed whether the deployment 'velero' exists, log the commands of    *)
(* the current or last run, report and exitCode the message and the exit   *)
(* status of the last run that ended.  pc is "shell" between runs and      *)
(* "v_bucket", "v_bucket_name" while a run waits at its two questions.     *)
(***************************************************************************)
\* replies to 'Do you want to use it? (yes/no)': choice.strip().lower()
VeleroReplies == {"yes", " Y", "no", ""}
UsesDefaultBucket(r) == Lower(Strip(r)) \in {"yes", "y"}

VeleroInputs ==
    [prepOk : BOOLEAN,       \* chdir, host address and latest version are obtained
     cliOk : BOOLEAN,        \* download and install of the CLI succeed
     getOk : BOOLEAN,        \* 'kubectl get deployment velero' reaches the API server
     installOk : BOOLEAN,    \* 'velero install' exits 0
     verifyOk : BOOLEAN,     \* 'velero backup create test-backup' exits 0
     deleteOk : BOOLEAN,     \* 'kubectl delete namespace velero' exits 0
     rmOk : BOOLEAN]         \* 'sudo rm -f /usr/local/bin/velero' exits 0

InitVelero ==
    /\ script = "velero"
    /\ pc = "shell"
    /\ userOk \in BOOLEAN
    /\ clusterUp \in ClusterStates
    /\ RunIdle
    /\ runs = 0
    /\ log = <<>>
    /\ report = "none"
    /\ trail = <<>>
    /\ NoIngress
    /\ installed \in BOOLEAN
    /\ deployed \in BOOLEAN
    /\ newer = FALSE
    /\ kubectl = "latest"
    /\ NoCommand
    /\ exitCode = -1

\* the variables no run of deploy_velero.py changes (filesOk apart)
veleroIdle == <<script, userOk, clusterUp, ingressYaml, secretYaml, secretAsked, topicMade, newer, kubectl, execVars, envVars,
                listing, listFailed, snapRows, cls, answer, prompts, decision, delPolls,
                sawAbsent, stage, nsAtApply, fetch, failed, nsCreate, waitVars, trail>>

\* a run of the script ends with the given commands, message and exit status
VeleroRunEnds(cmds, msg, code) ==
    /\ log' = cmds
    /\ report' = msg
    /\ exitCode' = code
    /\ pc' = "shell"

\* verify_velero_deployment after the given commands; msg is the message of
\* a successful run
VeleroVerified(cmds, msg, ok) ==
    IF ok THEN VeleroRunEnds(cmds \o <<"velero backup create">>, msg, 0)
    ELSE VeleroRunEnds(cmds \o <<"velero backup create">>, "failed", 1)

\* perform_installation from the CLI check on: install the CLI if missing,
\* query the deployment; if the query succeeds verify, if it fails go on to
\* deploy_velero_resource, which first asks for the bucket
InstallFromCli(in) ==
    IF ~installed /\ ~in.cliOk
    THEN VeleroRunEnds(<<"install_cli">>, "failed", 1) /\ UNCHANGED <<installed, deployed>>
    ELSE LET cli == IF installed THEN <<>> ELSE <<"install_cli">>
         IN  /\ installed' = TRUE
             /\ UNCHANGED deployed
             /\ IF deployed /\ in.getOk
                THEN VeleroVerified(cli, "skipped", in.verifyOk)
                ELSE /\ log' = cli
                     /\ pc' = "v_bucket"
                     /\ exitCode' = -1
                     /\ UNCHANGED report

\* menu choice 1: perform_installation
VeleroInstallation ==
    /\ pc = "shell"
    /\ script = "velero"
    /\ runs < MaxRuns
    /\ runs' = runs + 1
    /\ \E in \in VeleroInputs :
          IF \/ ~userOk
             \/ ~in.prepOk
             \/ StatusRc(clusterUp) # 0
             \/ ~StatusSaysRunning(clusterUp)
             \/ ~filesOk
          THEN VeleroRunEnds(<<>>, "failed", 1) /\ UNCHANGED <<installed, deployed>>
          ELSE InstallFromCli(in)
    /\ UNCHANGED <<veleroIdle, filesOk>>

\* deploy_velero_resource from 'velero install' on, then
\* verify_velero_deployment
VeleroDeploy(in) ==
    IF ~in.installOk
    THEN VeleroRunEnds(log \o <<"velero install">>, "failed", 1) /\ UNCHANGED deployed
    ELSE /\ deployed' = TRUE
         /\ VeleroVerified(log \o <<"velero install">>, "deployed", in.verifyOk)

\* deploy_velero_resource, the reply to 'Do you want to use it? (yes/no)':
\* with yes or y the default bucket is used and the install follows, with any
\* other reply the run asks for the bucket name; the end of the input is an
\* uncaught EOFError
VeleroBucketReply ==
    /\ pc = "v_bucket"
    /\ script = "velero"
    /\ \E in \in VeleroInputs, r \in VeleroReplies, eof \in BOOLEAN :
          IF eof THEN VeleroRunEnds(log, "none", 1) /\ UNCHANGED deployed
          ELSE IF UsesDefaultBucket(r) THEN VeleroDeploy(in)
          ELSE /\ pc' = "v_bucket_name"
               /\ UNCHANGED <<log, report, exitCode, deployed>>
    /\ UNCHANGED <<veleroIdle, filesOk, installed, runs>>

\* deploy_velero_resource, the reply to 'Please enter the desired bucket
\* name': whatever the name, the install follows; the end of the input is an
\* uncaught EOFError
VeleroBucketName ==
    /\ pc = "v_bucket_name"
    /\ script = "velero"
    /\ \E in \in VeleroInputs, eof \in BOOLEAN :
          IF eof THEN VeleroRunEnds(log, "none", 1) /\ UNCHANGED deployed
          ELSE VeleroDeploy(in)
    /\ UNCHANGED <<veleroIdle, filesOk, installed, runs>>

\* menu choice 2: perform_uninstallation; both commands run with check=False
VeleroUninstallation ==
    /\ pc = "shell"
    /\ script = "velero"
    /\ runs < MaxRuns
    /\ runs' = runs + 1
    /\ \E in \in VeleroInputs :
          IF ~userOk
          THEN VeleroRunEnds(<<>>, "failed", 1) /\ UNCHANGED <<installed, deployed>>
          ELSE /\ VeleroRunEnds(<<"kubectl delete namespace velero", "rm velero">>,
                                "uninstalled", 0)
               /\ deployed' = IF in.deleteOk THEN FALSE ELSE deployed
               /\ installed' = IF in.rmOk THEN FALSE ELSE installed
    /\ UNCHANGED <<veleroIdle, filesOk>>

\* any other menu choice: 'Invalid selection', exit status 1
VeleroInvalid ==
    /\ pc = "shell"
    /\ script = "velero"
    /\ runs < MaxRuns
    /\ runs' = runs + 1
    /\ VeleroRunEnds(<<>>, "invalid_selection", 1)
    /\ UNCHANGED <<veleroIdle, filesOk, installed, deployed>>

\* the input ends at the menu, or the log directory cannot be created before
\* it: an uncaught exception, exit status 1
VeleroMenuEof ==
    /\ pc = "shell"
    /\ script = "velero"
    /\ runs < MaxRuns
    /\ runs' = runs + 1
    /\ VeleroRunEnds(<<>>, "none", 1)
    /\ UNCHANGED <<veleroIdle, filesOk, installed, deployed>>

\* between two runs the operator may put the required files in place or
\* take them away
VeleroFiles ==
    /\ pc = "shell"
    /\ script = "velero"
    /\ filesOk' = ~filesOk
    /\ UNCHANGED <<veleroIdle, installed, deployed, runs, log, report, exitCode, pc>>

NextVelero ==
    \/ VeleroInstallation
    \/ VeleroBucketReply
    \/ VeleroBucketName
    \/ VeleroUninstallation
    \/ VeleroInvalid
    \/ VeleroMenuEof
    \/ VeleroFiles

VeleroSpec == InitVelero /\ [][NextVelero]_vars

(***************************************************************************)
(* Properties.                                                            *)
(***************************************************************************)
\* the listing of the current run succeeded and was classified
Classified == cls # "none" /\ ~listFailed

\* the current run has ended: back at the menu, or the process has exited
RunOver == runs > 0 /\ pc \in {"menu", "exited"}

\* C1: a deploy run whose listing shows only resources matching the ownership
\* predicate (at least one) issues no apply and no namespace delete, reports
\* that the deployment already exists and ends successfully.
C1_AllOwnedRunAppliesNothing ==
    (Classified /\ ExpectedClass(script, snapRows) = "AllOwned")
        => /\ Applies(log) = {}
           /\ ~Issued(log, "delete_ns")
           /\ RunOver => (report = "already" /\ exitCode \in {-1, 0})

\* C2: after a Recreate decision the namespace is re-created only once it was
\* observed absent, and the namespace holds no resource when the first apply
\* is issued.
C2_RecreateAppliesOnEmptyNamespace ==
    decision = "Recreate"
        => /\ (Issued(log, "create_ns") => sawAbsent)
           /\ nsAtApply # "nonempty"

\* C3: when the listing classified Mixed and the operator answered 'abort',
\* the run ends unsuccessfully with no apply and no namespace delete or create.
C3_AbortAppliesNothing ==
    (cls = "Mixed" /\ answer = "abort" /\ pc # "prompt")
        => /\ pc = "exited"
           /\ exitCode # 0
           /\ log = <<>>

\* C4: a successful listing with at least one resource, all matching the
\* ownership predicate, is classified AllOwned.
C4_AllMatchingIsAllOwned ==
    (Classified /\ ExpectedClass(script, snapRows) = "AllOwned") => cls = "AllOwned"

\* C5: a successful listing with at least one resource that does not match the
\* ownership predicate is classified Mixed, whatever else it lists.
C5_AnyForeignIsMixed ==
    (Classified /\ \E i \in 1..Len(snapRows) : ~Owned(script, snapRows[i]))
        => cls = "Mixed"

C5_Witness ==
    /\ Classified
    /\ cls = "Mixed"
    /\ \E i \in 1..Len(snapRows) : ~Owned(script, snapRows[i])
    /\ \E i \in 1..Len(snapRows) : Owned(script, snapRows[i])

\* C6: a successful listing of a namespace without resources is classified
\* Empty by every script.
C6_NoEntryIsEmpty ==
    (Classified /\ Len(snapRows) = 0) => cls = "Empty"

C6_Witness ==
    /\ Classified
    /\ Len(snapRows) = 0
    /\ cls = "Empty"
    /\ pc = "decide"

\* the listing has more than one section: a pod section and a service section,
\* each with its header row, a blank line between them
SeveralSections ==
    /\ \E i \in 1..Len(snapRows) : StartsWith(snapRows[i], "pod/")
    /\ \E i \in 1..Len(snapRows) : StartsWith(snapRows[i], "service/")

\* C7: header rows and blank lines do not count: a successful listing of
\* several sections whose resource rows all match is classified AllOwned.
C7_HeadersAndBlankLinesIgnored ==
    (Classified /\ SeveralSections /\ \A i \in 1..Len(snapRows) : Owned(script, snapRows[i]))
        => cls = "AllOwned"

\* C8: a run whose resource listing failed applies no manifest.
C8_FailedListingNotEmpty ==
    listFailed => Applies(log) = {}

\* C9: after a poll the waiter has emitted Ready if and only if the poll's
\* snapshot lists at least one pod and shows every pod with as many ready
\* containers as it has containers.
C9_ReadyIffAllPodsReady ==
    (polls > 0 /\ wOutcome # "TimedOut") => (wOutcome = "Ready" <=> AllReady(snapPods))

\* C10: Ready is returned at the first poll whose snapshot is all-ready, after
\* as many polls as that snapshot's position; a wait that ends TimedOut has
\* seen no all-ready snapshot in any of its polls.
C10_ReadyAtFirstAllReadyPoll ==
    script \in {"kafka", "dashboard"} =>
        /\ wOutcome = "Ready"
              => (AllReady(snapPods) /\ ~earlierReady /\ polls = (elapsed \div wInterval) + 1)
        /\ wOutcome = "TimedOut" => (~AllReady(snapPods) /\ ~earlierReady)
        /\ (wOutcome = "none" /\ polls > 0) => ~AllReady(snapPods)

\* the polls a wait makes before it gives up: ceil(timeout / interval)
MaxPolls == (wTimeout + wInterval - 1) \div wInterval

\* C11: the waiter polls only while elapsed < timeout, makes at most
\* ceil(timeout / interval) polls, ends TimedOut after exactly that many when
\* no poll was ready, and always stops polling.
C11_WaitStopsAtTimeout ==
    /\ [](/\ polls <= MaxPolls
          /\ wOutcome = "TimedOut" => (elapsed >= wTimeout /\ polls = MaxPolls))
    /\ [][polls' # polls => elapsed < wTimeout]_vars
    /\ <>(pc # "wait")

C11_Witness ==
    /\ wOutcome = "TimedOut"
    /\ pc = "exited"
    /\ polls = MaxPolls
    /\ polls > 1

\* C12: the waiter of deploy_kafka.py and of deploy_kubernetes_dashboard.py
\* returns Ready only on a poll that lists at least one pod and in which every
\* pod has at least one container.
C12_NoReadyWithoutContainers ==
    (script \in {"kafka", "dashboard"} /\ wOutcome = "Ready")
        => /\ Len(snapPods) >= 1
           /\ \A i \in 1..Len(snapPods) : snapPods[i].total >= 1

\* the pod of the workload the run is applying or waiting on
StagePod == IF stage = 1 THEN "own1" ELSE "own2"

\* C13: once a readiness wait has timed out the process has exited with a
\* failure status, the last cluster command it issued is the apply of the
\* workload it waited on (no later apply, no delete), and what was applied is
\* still in the namespace.
C13_TimeoutLeavesDeploymentInPlace ==
    wOutcome = "TimedOut"
        => /\ pc = "exited"
           /\ exitCode # 0
           /\ log # <<>>
           /\ log[Len(log)] = "apply:" \o Manifest(script, stage)
           /\ ~Issued(log, "delete_ns") \/ decision = "Recreate"
           /\ nsPhase = "active"
           /\ pods[StagePod] # "none"
           /\ stage = 2 => pods["own1"] # "none"

\* C13 witness: the wait after the second apply timed out; the run is one of
\* deploy_mysql.py that applied both manifests with a required file missing.
C13_Witness ==
    /\ script = "mysql"
    /\ ~filesOk
    /\ wOutcome = "TimedOut"
    /\ pc = "exited"
    /\ stage = 2
    /\ Cardinality(Applies(log)) = 2

\* C14: a run that reported a successful deployment has waited on what it
\* applied, and its last wait returned Ready.
C14_SuccessOnlyAfterReady ==
    report = "success" => (polls > 0 /\ wOutcome = "Ready")

\* C20: a process that does not run as the configured user never issues a
\* cluster command (namespace create or delete, manifest apply), in a deploy
\* run or in an uninstall.
C20_IdentityCheckedFirst ==
    ~userOk => log = <<>>

\* the manifests of each script in the order its code names them
ConfiguredOrder ==
    IF script = "kafka" THEN <<"kafka.yaml", "redpanda.yaml">>
    ELSE IF script = "mysql" THEN <<"mysql.yaml", "phpmyadmin.yaml">>
    ELSE IF script = "dashboard" THEN <<"kubernetes-dashboard-ingress.yaml",
                                        "kubernetes-dashboard-secret.yaml">>
    ELSE <<"ecom_app.yaml">>

\* the apply commands of the run, in the order they were issued
AppliedManifests == SelectSeq(log, IsApply)

\* C15: the manifests a run applies are a prefix of the configured order, each
\* at its place; when an apply fails the run has exited with a non-zero
\* status, the failure names the manifest applied last, and nothing is applied
\* after it.
C15_AppliesInOrderStopAtFailure ==
    /\ Len(AppliedManifests) <= Len(ConfiguredOrder)
    /\ \A i \in 1..Len(AppliedManifests) :
          AppliedManifests[i] = "apply:" \o ConfiguredOrder[i]
    /\ failed # "" =>
          /\ pc = "exited"
          /\ exitCode # 0
          /\ log # <<>>
          /\ log[Len(log)] = "apply:" \o failed

\* C15 witness: the second manifest of a script was applied after the first
\* and its apply failed; the script is deploy_mysql.py after a fetch that left
\* a required file missing, so mysql.yaml was applied and phpmyadmin.yaml is
\* the manifest the failure names.
C15_Witness ==
    /\ script = "mysql"
    /\ ~filesOk
    /\ Len(AppliedManifests) = 2
    /\ failed = ConfiguredOrder[2]
    /\ pc = "exited"

\* C15 witness of the other case: the apply of the first manifest of the
\* dashboard failed and the second was never applied.
C15_WitnessFirstFails ==
    /\ script = "dashboard"
    /\ failed = "kubernetes-dashboard-ingress.yaml"
    /\ Len(AppliedManifests) = 1

\* whether step a occurs in the trail immediately before position i
Preceded(i, a) == i > 1 /\ trail[i - 1] = a

\* C16: in every deploy run the preconditions are checked in the order
\* identity, cluster reachable, artifacts present, namespace ensured: every
\* artifact check comes directly after a cluster check and the namespace is
\* ensured directly after the artifact check.  deploy_kubernetes_dashboard.py
\* keeps this order; deploy_ecom_app.py, deploy_mysql.py and deploy_kafka.py
\* look at the artifacts (and fetch them) before the cluster.
C16_ClusterBeforeArtifacts ==
    \A i \in 1..Len(trail) :
        /\ trail[i] = "artifacts" => Preceded(i, "cluster")
        /\ trail[i] = "namespace" => Preceded(i, "artifacts")

\* C17: a run whose artifact fetch failed at the clone has exited with a
\* failure status without issuing any cluster-changing command.
C17_FetchFailureBeforeMutation ==
    fetch = "clone_failed"
        => /\ pc = "exited"
           /\ exitCode # 0
           /\ log = <<>>
           /\ trail[Len(trail)] = "artifacts"

C17_Witness ==
    /\ fetch = "clone_failed"
    /\ pc = "exited"
    /\ nsPhase = "absent"

\* C18: a deploy run that is past the artifact step has every required file
\* in its working directory.
C18_FilesPresentPastArtifactStep ==
    (runs > 0 /\ pc \in {"minikube", "ensure_ns", "inspect", "decide", "prompt",
                          "delete_ns", "wait_del", "recreate", "apply", "wait",
                          "topic", "final"})
        => filesOk

\* whether 'minikube status' reports a running cluster: exit status 0 and
\* "Running" on stdout
ReportsRunning(c) == StatusRc(c) = 0 /\ StatusSaysRunning(c)

\* C19: when the status query does not report a running cluster, a deploy
\* run issues no cluster-changing command and ends with a non-success exit
\* status at the cluster check.
C19_ClusterUnavailableIsFailure ==
    (~ReportsRunning(clusterUp) /\ runs > 0 /\ report \notin {"removed", "noop", "error"})
        => /\ log = <<>>
           /\ pc \notin {"ensure_ns", "inspect", "decide", "prompt", "delete_ns",
                          "wait_del", "recreate", "apply", "wait", "topic", "final"}
           /\ (pc = "exited" /\ trail[Len(trail)] = "cluster") => exitCode # 0


\* C21: an uninstall that finds the namespace absent issues no delete command
\* and reports a no-op, not an error.
C21_UninstallOfAbsentIsNoop ==
    [][(MenuRemove /\ nsPhase = "absent" /\ pc' = "menu")
          => (log' = <<>> /\ report' = "noop")]_vars


\* the create commands the run has issued
Creates(l) == {i \in 1..Len(l) : l[i] = "create_ns"}

\* C22: ensure_namespace issues a create command only when the namespace is
\* absent at its existence check; when it returns normally the namespace
\* exists; called on a state where the namespace exists it issues no create.
C22_EnsureNamespaceIdempotent ==
    [][EnsureNs =>
          /\ Creates(log') # Creates(log) => nsPhase = "absent"
          /\ pc' # "exited" => nsPhase' # "absent"
          /\ nsPhase # "absent" => (log' = log /\ pc' = "inspect")]_vars

\* C22 witness: the second deploy run of a process called ensure_namespace on
\* the namespace the first run's call had left in place, and issued no create.
C22_Witness ==
    /\ runs = 2
    /\ pc = "inspect"
    /\ Len(SelectSeq(trail, LAMBDA a : a = "namespace")) = 2
    /\ Creates(log) = {}
    /\ nsPhase = "active"

\* C23: when the create command of ensure_namespace answers 'already exists',
\* because another actor created the namespace after the existence check, the
\* deploy run continues.
C23_AlreadyExistsIsSuccess ==
    nsCreate = "exists" => pc # "exited"


\* spec.md 3: the ownership predicate accepts every resource the target itself
\* creates.  deploy_kubernetes_dashboard.py states no predicate; what its Helm
\* release creates is named after the release, kubernetes-dashboard.
ExpectedOwned(s, line) ==
    IF s = "dashboard" THEN Contains(line, "kubernetes-dashboard") ELSE Owned(s, line)

\* spec.md 4.3 on the rows of the run's listing
SnapshotClass(rows) ==
    IF Len(rows) = 0 THEN "Empty"
    ELSE IF \A i \in 1..Len(rows) : ExpectedOwned(script, rows[i]) THEN "AllOwned"
    ELSE "Mixed"

\* C24: the step that acts on a successful listing leads to the conflict
\* prompt exactly when the listing is Mixed; on an Empty listing it leads to
\* the apply with no command issued, and a run on an Empty listing never
\* prompts and never deletes the namespace.
C24_PromptExactlyOnMixed ==
    /\ [][((Decide /\ ~listFailed) \/ (DashInspect /\ ~listFailed'))
             => /\ pc' \in {"prompt", "d_prompt"} <=> SnapshotClass(snapRows') = "Mixed"
                /\ SnapshotClass(snapRows') = "Empty"
                      => (pc' \in {"apply", "d_helm"} /\ log' = log)]_vars
    /\ []((Classified /\ SnapshotClass(snapRows) = "Empty")
             => (prompts = 0 /\ ~Issued(log, "delete_ns")))


\* whether the run's listing showed the pod id
Listed(id) ==
    \E i \in 1..Len(snapRows) : StartsWith(snapRows[i], "pod/" \o PodName(script, id) \o " ")

\* C25: a run that decided Continue has issued no namespace delete and no
\* namespace create, its first command is the apply of the first manifest,
\* the step that takes the decision leaves the namespace as it is, and while
\* the namespace is active every pod and service the listing showed is still
\* in it.
C25_ContinueKeepsResources ==
    /\ [][(Prompt /\ decision' = "Continue")
             => (pc' = "apply" /\ log' = log /\ UNCHANGED envVars)]_vars
    /\ [](decision = "Continue" =>
             /\ ~Issued(log, "delete_ns")
             /\ ~Issued(log, "create_ns")
             /\ log # <<>> => log[1] = "apply:" \o Manifest(script, 1)
             /\ nsPhase = "active" =>
                   /\ \A i \in 1..Len(PodIds) : Listed(PodIds[i]) => pods[PodIds[i]] # "none"
                   /\ (\E i \in 1..Len(snapRows) : StartsWith(snapRows[i], "service/")) => svc)

\* C25 witness: after Continue the first manifest was applied next to a
\* resource of another application that the listing had shown; the run is one
\* of deploy_mysql.py that went on with a required file missing.
C25_Witness ==
    /\ script = "mysql"
    /\ ~filesOk
    /\ decision = "Continue"
    /\ Applies(log) # {}
    /\ Listed("foreign")
    /\ pods["foreign"] = "ready"
    /\ pc \in {"wait", "final"}


\* the answers each prompt names as its choices
Vocabulary(s) ==
    IF s = "kafka" THEN {"1", "2"}
    ELSE IF s = "mysql" THEN {"yes", "no"}
    ELSE {"continue", "delete"}

\* whether the answer, trimmed and lower-cased, is one of the prompt's choices
Recognized(s, ans) == Lower(Strip(ans)) \in Vocabulary(s)

\* C26: an answer outside the prompt's vocabulary selects no decision: once
\* such an answer was given, the run has decided neither Continue nor
\* Recreate and has issued no apply and no namespace delete.
C26_UnrecognizedAnswerDecidesNothing ==
    (answer # "" /\ ~Recognized(script, answer))
        => /\ decision = "none"
           /\ Applies(log) = {}
           /\ ~Issued(log, "delete_ns")


\* the decision an answer selects, "none" when it selects neither
Selects(s, ans) ==
    IF DecisionOf(s, ans) \in {"Continue", "Recreate"} THEN DecisionOf(s, ans) ELSE "none"

\* C27: the decision the prompt took on the operator's answer is the one every
\* answer that differs from it only in letter case or in leading and trailing
\* whitespace selects.
C27_DecisionIgnoresCaseAndPadding ==
    answer # "" =>
        \A b \in Answers :
            Lower(Strip(b)) = Lower(Strip(answer)) => Selects(script, b) = decision


\* C28: in the dashboard deploy the service is patched only in a run whose
\* readiness wait returned Ready on a listing that showed at least one pod and
\* every pod at 1/1; a run whose wait timed out has exited without the patch.
C28_PatchOnlyAfterReady ==
    script = "dashboard" =>
        /\ (Issued(log, "patch_svc") \/ pc = "d_patch") =>
              /\ wOutcome = "Ready"
              /\ Len(snapPods) >= 1
              /\ \A i \in 1..Len(snapPods) : snapPods[i].ready = 1 /\ snapPods[i].total = 1
        /\ wOutcome = "TimedOut" =>
              /\ pc = "exited"
              /\ exitCode # 0
              /\ ~Issued(log, "patch_svc")

\* C28 witness: the service was patched after a wait that needed a second
\* poll to see the pods ready.
C28_Witness ==
    /\ script = "dashboard"
    /\ Issued(log, "patch_svc")
    /\ polls = 2
    /\ wOutcome = "Ready"

\* C28 witness of the other case: the wait timed out after the Helm install.
C28_WitnessTimedOut ==
    /\ script = "dashboard"
    /\ wOutcome = "TimedOut"
    /\ Issued(log, "helm")


\* the last command the run has issued, "" when it has issued none
LastCommand == IF log = <<>> THEN "" ELSE log[Len(log)]

\* C29: in the Kafka deploy the topic is created only when the wait after the
\* kafka.yaml apply has returned Ready, redpanda.yaml is applied only directly
\* after the topic creation and only when that succeeded (topicMade records
\* the success of the run's creation command; a run whose creation command
\* failed has ended with status 1, that command its last), and the final
\* listing and the success report come only when the wait after the
\* redpanda.yaml apply has returned Ready.
C29_KafkaStepsInOrder ==
    script = "kafka" =>
        /\ pc = "topic" =>
              (wOutcome = "Ready" /\ polls > 0 /\ stage = 1 /\ LastCommand = "apply:kafka.yaml")
        /\ \A i \in 1..Len(log) :
              /\ log[i] = "topic" => (i > 1 /\ log[i - 1] = "apply:kafka.yaml")
              /\ log[i] = "apply:redpanda.yaml" =>
                     (i > 1 /\ log[i - 1] = "topic" /\ topicMade)
        /\ (pc = "apply" /\ stage = 2) => (LastCommand = "topic" /\ topicMade)
        /\ topicMade => Issued(log, "topic")
        /\ (Issued(log, "topic") /\ ~topicMade) =>
              (pc = "exited" /\ exitCode = 1 /\ LastCommand = "topic")
        /\ (pc = "final" \/ report = "success") =>
              (wOutcome = "Ready" /\ polls > 0 /\ stage = 2
                  /\ LastCommand = "apply:redpanda.yaml")

\* C29 witness: a Kafka deploy went through both applies, the topic creation
\* between them, and reported success.
C29_Witness ==
    /\ script = "kafka"
    /\ report = "success"
    /\ Issued(log, "topic")
    /\ topicMade
    /\ Cardinality(Applies(log)) = 2


\* C30: the bridge manifest is applied only on a namespace where the pod
\* mysql-0 is ready and the service mysql-svc-internal exists.
C30_BridgeAppliedOnlyWithMysqlInPlace ==
    [][BridgeApply => (pods["own1"] = "ready" /\ svc)]_vars


\* whether the listing recs shows the pod of the workload the run waits for,
\* with every container ready
WorkloadReadyIn(recs) ==
    /\ \E i \in 1..Len(recs) : recs[i].name = PodName(script, StagePod)
    /\ \A i \in 1..Len(recs) :
          recs[i].name = PodName(script, StagePod)
              => (recs[i].ready = recs[i].total /\ recs[i].total >= 1)

\* C33: a poll whose listing shows the waited workload's pod ready ends the
\* wait with Ready, whatever other pods the namespace holds.
C33_ReadyDependsOnWorkloadOnly ==
    (script \in {"kafka", "mysql"} /\ polls > 0 /\ wOutcome # "Ready")
        => ~WorkloadReadyIn(snapPods)


\* C34: a run that waits for the deleted namespace to disappear leaves that
\* wait, whether or not the namespace ever disappears.
C34_DeletionWaitEnds ==
    (pc \in {"wait_del", "d_wait_del"}) ~> (pc \notin {"wait_del", "d_wait_del"})


\* C35: within a run no manifest is applied twice, a readiness poll issues no
\* command, and an apply that failed was issued once and ended the run.
C35_EachManifestAppliedOnce ==
    /\ [](\A i, j \in Applies(log) : log[i] = log[j] => i = j)
    /\ [][(WaitPoll \/ WaitTimeout) => log' = log]_vars
    /\ [](failed # "" =>
             /\ pc = "exited"
             /\ Cardinality({i \in 1..Len(log) : log[i] = "apply:" \o failed}) = 1)

\* C35 witness: both manifests of a run were applied, and the wait after the
\* second one has polled more than once; the run is one of deploy_mysql.py
\* that went on with a required file missing.
C35_Witness ==
    /\ script = "mysql"
    /\ ~filesOk
    /\ Cardinality(Applies(log)) = 2
    /\ stage = 2
    /\ polls >= 2
    /\ pc = "wait"


\* C36: once the waiter has emitted Ready or TimedOut it makes no further
\* poll and its outcome stays what it is.
C36_WaiterOutcomeIsTerminal ==
    [][wOutcome # "none" => (wOutcome' = wOutcome /\ polls' = polls /\ elapsed' = elapsed)]_vars

\* C36 witness: the waiter returned Ready at its third poll.
C36_Witness ==
    /\ wOutcome = "Ready"
    /\ polls = 3
    /\ pc = "returned"

\* C36 witness of the other outcome: the waiter has timed out and exited.
C36_WitnessTimedOut ==
    /\ wOutcome = "TimedOut"
    /\ pc = "exited"
    /\ polls = MaxPolls
    /\ script = "mysql"


\* C40: removing the bridge leaves the namespace, the MySQL pod and service
\* and every pod other than the bridge's own as they are, and issues no
\* delete when the namespace does not exist.
C40_BridgeRemovalKeepsDatabase ==
    [][BridgeMenuRemove =>
          /\ nsPhase' = nsPhase
          /\ svc' = svc
          /\ pods'["own1"] = pods["own1"]
          /\ pods'["foreign"] = pods["foreign"]
          /\ nsPhase = "absent" => (log' = <<>> /\ report' = "noop")]_vars

\* C40 witness: the bridge was removed from a namespace that holds MySQL and
\* a pod of another application.
C40_Witness ==
    /\ script = "bridge"
    /\ report = "removed"
    /\ log = <<"delete_manifest">>
    /\ pods["own2"] = "none"
    /\ pods["own1"] = "ready"
    /\ pods["foreign"] = "ready"
    /\ svc

\* C40 witness of the other case: removal found no namespace.
C40_WitnessAbsent ==
    /\ script = "bridge"
    /\ report = "noop"
    /\ nsPhase = "absent"


\* C37: on a non-zero exit of a command whose output is captured, the executor
\* called with its flag off returns the captured output, and called with its
\* flag on it ends the process.
C37_FlagDecidesFatality ==
    (cmdRet.kind # "none" /\ cmdCapture /\ cmdRc # 0) =>
        IF cmdFlag THEN cmdRet.kind = "exited" /\ pc = "exited"
        ELSE cmdRet = Returned(Strip(cmdOut)) /\ pc = "returned"


\* a command that stops or deletes the cluster
IsStopOrDelete(c) == c \in {"minikube stop", "minikube stop 2>/dev/null", "minikube delete"}

\* C31: Stop, and Delete of a Running cluster, issue no stop or delete
\* command before the backup has completed, and Stop of a Stopped cluster
\* issues no command at all.
C31_BackupCompletesBeforeStopOrDelete ==
    [][(ManagerMenuStop \/ ManagerMenuDelete) =>
          /\ (installed /\ clusterUp = "Running") =>
                \A i \in 1..Len(log') :
                    IsStopOrDelete(log'[i]) =>
                        \E j \in 1..(i - 1) : log'[j] = "backup_completed"
          /\ (ManagerMenuStop /\ clusterUp = "Stopped") => log' = <<>>]_vars

\* C38: a Backup Resources operation that returns to the menu leaves a
\* Running cluster Running.
C38_BackupKeepsRunState ==
    [][ManagerMenuBackup =>
          ((clusterUp = "Running" /\ pc' = "menu") => clusterUp' = "Running")]_vars

\* the step issued the cluster start command of start_minikube
StartIssued ==
    /\ script = "manager"
    /\ \E i \in (IF pc = "menu" THEN 1 ELSE Len(log) + 1)..Len(log') :
            log'[i] = MINIKUBE_START_CMD

\* the post-start configuration was entered after the start command
ConfiguredAfterStart ==
    \E i, j \in 1..Len(log) :
        i < j /\ log[i] = MINIKUBE_START_CMD /\ log[j] = "post_start_configuration"

\* C39: after start_minikube issued the start command, the post-start
\* configuration ran if and only if the command exited 0, and 'Cluster start
\* failed' was reported exactly when it exited non-zero.
C39_ConfigurationFollowsExitStatus ==
    [][StartIssued =>
          /\ ConfiguredAfterStart' <=> cmdRc' = 0
          /\ report' = "start_failed" <=> cmdRc' # 0]_vars


\* whether the run issued the resource install command
IssuedInstall(cmds) == \E i \in 1..Len(cmds) : cmds[i] = "velero install"

\* the last run issued the install: it deployed, or its install failed
PreviousRunInstalled == report \in {"deployed", "failed"} /\ IssuedInstall(log)

\* C32: an installation run issues 'velero install' only when the deployment
\* is absent, and an installation run that follows one which issued the
\* install does not come to the resource deployment again.
C32_InstallOnlyWhenAbsent ==
    [][/\ ((VeleroBucketReply \/ VeleroBucketName) /\ IssuedInstall(log')) => ~deployed
       /\ (VeleroInstallation /\ PreviousRunInstalled) => pc' # "v_bucket"]_vars

====
